---- MODULE Spec2Model ----
(***************************************************************************)
(* ApiDetector: a browser extension that captures the responses a page     *)
(* receives (interceptor.js, injected in the page), tags them with the     *)
(* page-load session (content.js), keeps the JSON ones in an IndexedDB     *)
(* store (background.js) and answers queries about one session.            *)
(*                                                                         *)
(* A page context (a tab) is a value of Tabs.  Strings that the code       *)
(* inspects (Content-Type values, pageLoadId) are sequences of characters; *)
(* strings that the code only copies (url, method, responseBody) are       *)
(* atoms.                                                                  *)
(***************************************************************************)
EXTENDS Integers, Sequences, FiniteSets

(***************************************************************************)
(* Bounds of the model.                                                    *)
(***************************************************************************)
MaxClock == 2
MaxInputs == 4
MaxCalls == 5
MaxFetch == 2
MaxAsks == 2
MaxFaults == 2

Tabs == {"A", "B"}

(***************************************************************************)
(* JavaScript values and the string operations the code uses.              *)
(***************************************************************************)
JsNull == [tag |-> "null", chars |-> <<>>]
JsStr(cs) == [tag |-> "string", chars |-> cs]

\* JavaScript truthiness of null and of a string: null and '' are falsy.
Truthy(v) == v.tag = "string" /\ v.chars # <<>>

\* String.prototype.includes: sub occurs in s as a contiguous substring.
Includes(s, sub) ==
  \E i \in 0..(Len(s) - Len(sub)) : SubSeq(s, i + 1, i + Len(sub)) = sub

AppJson == <<"a","p","p","l","i","c","a","t","i","o","n","/","j","s","o","n">>
Charset == <<";"," ","c","h","a","r","s","e","t","=","u","t","f","-","8">>
TextHtml == <<"t","e","x","t","/","h","t","m","l">>
UpperJson == <<"A","p","p","l","i","c","a","t","i","o","n","/","J","S","O","N">>

\* The Content-Type values a response (or a window message) may carry.
ContentTypes ==
  { JsNull, JsStr(<<>>), JsStr(AppJson), JsStr(AppJson \o Charset),
    JsStr(TextHtml), JsStr(UpperJson), JsStr(SubSeq(AppJson, 1, 15)) }

Digits == <<"0","1","2","3","4","5","6","7","8","9">>

\* Number.prototype.toString: the decimal digits of n.
RECURSIVE NumToString(_)
NumToString(n) ==
  IF n < 10 THEN <<Digits[n + 1]>>
  ELSE NumToString(n \div 10) \o <<Digits[(n % 10) + 1]>>

\* The object spread {...data, ...over}: the fields of over win.
Spread(data, over) ==
  [k \in (DOMAIN data) \cup (DOMAIN over) |->
     IF k \in DOMAIN over THEN over[k] ELSE data[k]]

Bodies == {"b1", "b2"}

\* The hostname of the page each tab shows (window.location.hostname).
Hostname(t) == IF t = "A" THEN "a.example" ELSE "b.example"
Hostnames == {Hostname(t) : t \in Tabs}

\* What chrome.storage.local holds under 'deactivatedSites': nothing, or a
\* list of hostnames, kept as <<the set of its elements>>.
Absent == <<>>
StoredLists == {Absent} \cup {<<sites>> : sites \in SUBSET Hostnames}

VARIABLES
  now,              \* Date.now()
  deactivatedSites, \* chrome.storage.local 'deactivatedSites'
  loaded,           \* loaded[t]: a content script runs in tab t
  pageLoadId,       \* content.js pageLoadId of tab t
  prefPending,      \* the storage.local.get callback of content.js is pending
  injected,         \* interceptor.js runs in the page of tab t
  isActive,         \* interceptor.js isActive of tab t
  winQ,             \* window message events of tab t, not yet dispatched
  fetches,          \* the calls of the patched window.fetch, in call order
  xhr,              \* the XMLHttpRequest object of the page of tab t
  loads,            \* the load events dispatched on XMLHttpRequest objects
  chan,             \* chrome.runtime messages of tab t, not yet handled
  dbQueue,          \* IndexedDB requests issued and not yet executed, in order
  store,            \* the records of the object store 'requests'
  keyGen,           \* the key generator of the object store
  getLogsReply,     \* the last reply to GET_LOGS delivered to the popup
  nInputs,          \* events from outside so far: page loads, calls by the page,
                    \* posted messages, messages of the popup
  nSends,           \* XMLHttpRequest.send calls so far
  nCalls,           \* calls by the page and by the popup's toggle so far
  handled,          \* the message the background listener handled last: its
                    \* type, and whether a save was requested for it
  lastNew,          \* pageLoadId of the last NEW_PAGE_LOAD handled (<<>>: none)
  sincePurge,       \* pageLoadIds for which a save was requested since then
  session,          \* Date.now() as read by the content script started last (0: none)
  lastId,           \* the key of the add request that succeeded last (0: none)
  sync,             \* chrome.storage.sync: apiProvider and the two API keys
  asks,             \* the ASK_GEMINI messages handled, in order
  deleteReplies,    \* the replies to DELETE_LOG delivered to the popup, in order
  clearReplies,     \* the replies to CLEAR_ALL_LOGS delivered to the popup, in order
  faults,           \* the IndexedDB operations that failed, in order: the type
                    \* of the message that issued it, and what was replied
  enabledDomains,   \* chrome.storage.local 'enabledDomains'
  userPref,         \* what the user set the toggle of each hostname to last
  startPref,        \* userPref of its hostname when the page of tab t started
  popupTab,         \* the tab the popup was opened for last ("none": never opened)
  currentPageLoadId,\* popup.js currentPageLoadId (<<>>: null)
  siteToggleLabel,  \* the text of the label of the site toggle ("none": not set)
  searchInput,      \* the value of the search box of the popup
  logsList,         \* the log items of the popup's list, from the top
  logsCount         \* the text of the popup's counter

pageVars == << loaded, pageLoadId, prefPending, injected, isActive, winQ >>
netVars == << fetches, xhr, loads, nSends, nCalls >>
bgVars == << dbQueue, store, keyGen, getLogsReply >>
histVars == << handled, lastNew, sincePurge >>
popupVars == << sync, asks, deleteReplies >>
faultVars == << clearReplies, faults >>
prefVars == << enabledDomains, userPref, startPref >>
viewVars == << popupTab, currentPageLoadId, siteToggleLabel, searchInput,
               logsList, logsCount >>

vars == << now, deactivatedSites, pageVars, netVars, chan, bgVars, histVars,
           nInputs, session, lastId, popupVars, faultVars, prefVars, viewVars >>

\* The counter before the popup has set it.
NoCount == [kind |-> "none", shown |-> 0, of |-> 0]

NoReply == [pageLoadId |-> <<>>, logs |-> {}, superseded |-> FALSE, valid |-> FALSE]

\* chrome.storage.sync with nothing saved: get returns no value for the keys.
JsUndefined == [tag |-> "undefined", chars |-> <<>>]
NoSettings == [apiProvider |-> JsUndefined, geminiApiKey |-> JsUndefined,
               openrouterApiKey |-> JsUndefined]

\* A newly constructed XMLHttpRequest: no handler, nothing opened.
NoHandler == [wrap |-> 0, base |-> "none"]
NewXhr == [state |-> "unsent", onload |-> NoHandler, responseType |-> "text",
           requestUrl |-> "none", requestMethod |-> "none", rid |-> 0]

Init ==
  /\ now = 1
  /\ deactivatedSites = Absent
  /\ loaded = [t \in Tabs |-> FALSE]
  /\ pageLoadId = [t \in Tabs |-> <<>>]
  /\ prefPending = [t \in Tabs |-> FALSE]
  /\ injected = [t \in Tabs |-> FALSE]
  /\ isActive = [t \in Tabs |-> TRUE]
  /\ winQ = [t \in Tabs |-> <<>>]
  /\ fetches = <<>>
  /\ xhr = [t \in Tabs |-> NewXhr]
  /\ loads = <<>>
  /\ chan = [t \in Tabs |-> <<>>]
  /\ dbQueue = <<>>
  /\ store = {}
  /\ keyGen = 1
  /\ getLogsReply = NoReply
  /\ nInputs = 0
  /\ nSends = 0
  /\ nCalls = 0
  /\ handled = [type |-> "none", saved |-> FALSE]
  /\ lastNew = <<>>
  /\ sincePurge = {}
  /\ session = 0
  /\ lastId = 0
  /\ sync = NoSettings
  /\ asks = <<>>
  /\ deleteReplies = <<>>
  /\ clearReplies = <<>>
  /\ faults = <<>>
  /\ enabledDomains = {}
  /\ userPref = [h \in Hostnames |-> "none"]
  /\ startPref = [t \in Tabs |-> "none"]
  /\ popupTab = "none"
  /\ currentPageLoadId = <<>>
  /\ siteToggleLabel = "none"
  /\ searchInput = <<>>
  /\ logsList = <<>>
  /\ logsCount = NoCount

(***************************************************************************)
(* The clock: Date.now() never goes back, and any time may have passed     *)
(* since it was read last.  now is the value read last.                    *)
(***************************************************************************)
DateNow == now..MaxClock

(***************************************************************************)
(* content.js                                                              *)
(***************************************************************************)
\* The calls of the patched fetch that belong to the page tab t leaves are
\* abandoned with the page.
AbandonFetches(fs, t) ==
  [i \in DOMAIN fs |->
     IF fs[i].tab = t /\ fs[i].phase # "done"
       THEN [fs[i] EXCEPT !.phase = "gone"] ELSE fs[i]]

\* A page starts loading in tab t: the old document and its scripts are gone,
\* content.js runs at document_start: it takes pageLoadId from the clock, asks
\* for 'deactivatedSites', registers its listeners and sends NEW_PAGE_LOAD.
PageLoad(t) ==
  /\ nInputs < MaxInputs
  /\ nInputs' = nInputs + 1
  /\ now' \in DateNow
  /\ loaded' = [loaded EXCEPT ![t] = TRUE]
  /\ pageLoadId' = [pageLoadId EXCEPT ![t] = NumToString(now')]
  /\ session' = now'
  /\ prefPending' = [prefPending EXCEPT ![t] = TRUE]
  /\ injected' = [injected EXCEPT ![t] = FALSE]
  /\ isActive' = [isActive EXCEPT ![t] = TRUE]
  /\ winQ' = [winQ EXCEPT ![t] = <<>>]
  /\ fetches' = AbandonFetches(fetches, t)
  /\ xhr' = [xhr EXCEPT ![t] = NewXhr]
  /\ chan' = [chan EXCEPT ![t] =
                Append(@, [type |-> "NEW_PAGE_LOAD",
                           pageLoadId |-> NumToString(now')])]
  /\ startPref' = [startPref EXCEPT ![t] = userPref[Hostname(t)]]
  /\ UNCHANGED << deactivatedSites, loads, nSends, nCalls, bgVars, histVars,
                  popupVars, lastId, faultVars, enabledDomains, userPref, viewVars >>

\* result.deactivatedSites || []
OrEmpty(stored) == IF stored = Absent THEN {} ELSE stored[1]

\* A check that finds no hostname in the list.
IsListed_Never(sites, hostname) == FALSE

\* sites.includes(hostname)
IsListed(sites, hostname) == hostname \in sites

\* The callback of chrome.storage.local.get('deactivatedSites'): the page is
\* given interceptor.js unless its hostname is listed; interceptor.js starts
\* with isActive = true.
InjectInterceptor(t) ==
  /\ prefPending[t]
  /\ prefPending' = [prefPending EXCEPT ![t] = FALSE]
  /\ LET sites == OrEmpty(deactivatedSites)
         isDeactivated == IsListed(sites, Hostname(t))
     IN  /\ injected' = [injected EXCEPT ![t] = ~isDeactivated]
         /\ isActive' = [isActive EXCEPT ![t] = TRUE]
  /\ UNCHANGED << now, deactivatedSites, loaded, pageLoadId, winQ, netVars,
                  chan, bgVars, histVars, nInputs, popupVars, session, lastId,
                  faultVars, prefVars, viewVars >>

\* A spread in the other order, {pageLoadId, ...event.data}: the event wins.
ContentForward_EventWins(t, data) ==
  IF data.type = "INTERCEPTED_REQUEST"
    THEN <<Spread([pageLoadId |-> pageLoadId[t]], data)>>
    ELSE <<>>

\* The window 'message' listener of content.js, for one event: an
\* INTERCEPTED_REQUEST is forwarded with the pageLoadId of this content script.
ContentForward(t, data) ==
  IF data.type = "INTERCEPTED_REQUEST"
    THEN <<Spread(data, [pageLoadId |-> pageLoadId[t]])>>
    ELSE <<>>

\* The window 'message' listener of interceptor.js, for one event.
InterceptorState(t, data) ==
  IF injected[t] /\ data.type = "GEMINI_INTERCEPTOR_STATE"
    THEN data.isActive ELSE isActive[t]

\* The next window message event of tab t is dispatched to both listeners.
WinDeliver(t) ==
  /\ loaded[t]
  /\ winQ[t] # <<>>
  /\ LET data == Head(winQ[t])
     IN  /\ winQ' = [winQ EXCEPT ![t] = Tail(@)]
         /\ chan' = [chan EXCEPT ![t] = @ \o ContentForward(t, data)]
         /\ isActive' = [isActive EXCEPT ![t] = InterceptorState(t, data)]
  /\ UNCHANGED << now, deactivatedSites, loaded, pageLoadId, prefPending,
                  injected, netVars, bgVars, histVars, nInputs, popupVars, session, lastId,
                  faultVars, prefVars, viewVars >>

\* The chrome.runtime.onMessage listener of content.js for
\* SET_ACTIVATION_STATE: the state is posted to the page.
ContentOnSetActivationState(t, b) ==
  /\ loaded[t]
  /\ nCalls < MaxCalls
  /\ nCalls' = nCalls + 1
  /\ winQ' = [winQ EXCEPT ![t] =
                Append(@, [type |-> "GEMINI_INTERCEPTOR_STATE", isActive |-> b])]
  /\ UNCHANGED << now, deactivatedSites, loaded, pageLoadId, prefPending,
                  injected, isActive, fetches, xhr, loads, nSends, chan, bgVars, histVars, nInputs, popupVars, session, lastId,
                  faultVars, prefVars, viewVars >>

\* updateToggleState of setupSiteToggle: the text of the label.
ToggleLabel(isEnabled) == IF isEnabled THEN "Enabled" ELSE "Disabled"

\* The user switches the site toggle of the popup opened for the page of tab t
\* (setupSiteToggle of popup.js): the hostname is added to or removed from
\* 'enabledDomains', SET_ACTIVATION_STATE is sent to the tab, and the listener
\* of content.js posts the state to the page.
PopupSiteToggle(t, isEnabling) ==
  /\ loaded[t]
  /\ nCalls < MaxCalls
  /\ nCalls' = nCalls + 1
  /\ enabledDomains' = IF isEnabling THEN enabledDomains \cup {Hostname(t)}
                        ELSE enabledDomains \ {Hostname(t)}
  /\ userPref' = [userPref EXCEPT ![Hostname(t)] =
                    IF isEnabling THEN "on" ELSE "off"]
  /\ winQ' = [winQ EXCEPT ![t] =
                Append(@, [type |-> "GEMINI_INTERCEPTOR_STATE",
                           isActive |-> isEnabling])]
  /\ popupTab' = t
  /\ siteToggleLabel' = ToggleLabel(isEnabling)
  /\ UNCHANGED << now, deactivatedSites, loaded, pageLoadId, prefPending,
                  injected, isActive, fetches, xhr, loads, nSends, chan, bgVars,
                  histVars, nInputs, popupVars, session, lastId, faultVars,
                  startPref, currentPageLoadId, searchInput, logsList,
                  logsCount >>

\* The window messages a script of the page posts at time ts: the capture of
\* interceptor.js, the same with a pageLoadId and an id of the page's choosing,
\* and a message of another type.
Capture(ts) ==
  [type |-> "INTERCEPTED_REQUEST", url |-> "/api", method |-> "GET",
   responseBody |-> "b1", contentType |-> JsStr(AppJson), timestamp |-> ts]

ForgedId == 7
ForgedSession == <<"9">>

PageEventKinds == {"capture", "forged", "other"}

PageEvent(kind, ts) ==
  IF kind = "capture" THEN Capture(ts)
  ELSE IF kind = "forged"
    THEN Spread(Capture(ts), [url |-> "/forged", pageLoadId |-> ForgedSession,
                              id |-> ForgedId])
  ELSE [type |-> "PAGE_EVENT"]

\* A script of the page calls window.postMessage(PageEvent(kind, Date.now()), '*').
PagePost(t, kind) ==
  /\ loaded[t]
  /\ nInputs < MaxInputs
  /\ nInputs' = nInputs + 1
  /\ now' \in DateNow
  /\ winQ' = [winQ EXCEPT ![t] = Append(@, PageEvent(kind, now'))]
  /\ UNCHANGED << deactivatedSites, loaded, pageLoadId, prefPending, injected,
                  isActive, netVars, chan, bgVars, histVars, popupVars,
                  session, lastId,
                  faultVars, prefVars, viewVars >>

\* A window message event that a script of the page posted with type
\* INTERCEPTED_REQUEST reaches the listener of content.js (it accepts every
\* message whose source is the window).
ContentOnPosted(t, ct, body) ==
  /\ loaded[t]
  /\ nInputs < MaxInputs
  /\ nInputs' = nInputs + 1
  /\ chan' = [chan EXCEPT ![t] = @ \o
                ContentForward(t, [type |-> "INTERCEPTED_REQUEST",
                                   url |-> "/posted", method |-> "GET",
                                   responseBody |-> body, contentType |-> ct,
                                   timestamp |-> 1])]
  /\ UNCHANGED << now, deactivatedSites, pageVars, netVars, bgVars, histVars, popupVars, session, lastId,
                  faultVars, prefVars, viewVars >>

(***************************************************************************)
(* interceptor.js: the patched window.fetch.  A call is a record of        *)
(* fetches: phase "called" while the original fetch is pending, "decoding" *)
(* while text() of the clone is pending, then "done"; "gone" when the page *)
(* was left before.                                                        *)
(***************************************************************************)
\* A wrapper that returns the clone it reads.
FetchPageResult_Clone(outcome) ==
  IF outcome = "rejected" THEN "rejected" ELSE "clone"

\* What the promise of the wrapper settles with, given how the promise of the
\* original fetch settled: the wrapper awaits the original and returns the
\* response it got, not the clone.
FetchPageResult(outcome) ==
  IF outcome = "rejected" THEN "rejected" ELSE "response"

\* The text() callback without its guard.
FetchEmits_Always(active) == TRUE

\* The guard of the text() callback: if (isActive).
FetchEmits(active) == active

\* The page calls window.fetch(url, {method}): the wrapper keeps url and
\* method in its own variables and calls the original fetch at once.
FetchCallTo(t, url, method) ==
  /\ injected[t]
  /\ Len(fetches) < MaxFetch
  /\ nCalls < MaxCalls
  /\ nCalls' = nCalls + 1
  /\ fetches' = Append(fetches,
       [tab |-> t, phase |-> "called", origCalls |-> 1, url |-> url,
        method |-> method, outcome |-> "pending", pageGot |-> "pending",
        contentType |-> JsNull, body |-> "none", decodable |-> TRUE,
        armedAtArrival |-> FALSE, emitted |-> 0])
  /\ UNCHANGED << now, deactivatedSites, pageVars, xhr, loads, nSends, chan,
                  bgVars, histVars, nInputs, popupVars, session, lastId,
                  faultVars, prefVars, viewVars >>

\* The page calls window.fetch('/fetch').
FetchCall(t) == FetchCallTo(t, "/fetch", "GET")

\* The original fetch resolves with a response: the wrapper clones it, starts
\* text() on the clone and returns the response to the page.
FetchResolve(i, ct, body, dec) ==
  /\ fetches[i].phase = "called"
  /\ fetches' = [fetches EXCEPT ![i] =
       [@ EXCEPT !.phase = "decoding", !.outcome = "resolved",
                 !.pageGot = FetchPageResult("resolved"),
                 !.contentType = ct, !.body = body, !.decodable = dec,
                 !.armedAtArrival = isActive[fetches[i].tab]]]
  /\ UNCHANGED << now, deactivatedSites, pageVars, xhr, loads, nSends, nCalls, chan,
                  bgVars, histVars, nInputs, popupVars, session, lastId,
                  faultVars, prefVars, viewVars >>

\* The original fetch rejects: the await throws and the wrapper's promise
\* rejects with it.
FetchReject(i) ==
  /\ fetches[i].phase = "called"
  /\ fetches' = [fetches EXCEPT ![i] =
       [@ EXCEPT !.phase = "done", !.outcome = "rejected",
                 !.pageGot = FetchPageResult("rejected")]]
  /\ UNCHANGED << now, deactivatedSites, pageVars, xhr, loads, nSends, nCalls, chan,
                  bgVars, histVars, nInputs, popupVars, session, lastId,
                  faultVars, prefVars, viewVars >>

\* text() of the clone resolves: the capture is posted if isActive is true now.
FetchDecoded(i) ==
  /\ fetches[i].phase = "decoding"
  /\ fetches[i].decodable
  /\ now' \in DateNow
  /\ LET f == fetches[i]
         emit == FetchEmits(isActive[f.tab])
     IN  /\ fetches' = [fetches EXCEPT ![i] =
               [@ EXCEPT !.phase = "done",
                         !.emitted = IF emit THEN @ + 1 ELSE @]]
         /\ winQ' = [winQ EXCEPT ![f.tab] =
               IF emit
                 THEN Append(@, [type |-> "INTERCEPTED_REQUEST", url |-> f.url,
                                 method |-> f.method, responseBody |-> f.body,
                                 contentType |-> f.contentType,
                                 timestamp |-> now'])
                 ELSE @]
  /\ UNCHANGED << deactivatedSites, loaded, pageLoadId, prefPending, injected,
                  isActive, xhr, loads, nSends, nCalls, chan, bgVars, histVars,
                  nInputs, popupVars, session, lastId,
                  faultVars, prefVars, viewVars >>

\* text() of the clone rejects: the catch logs the error, nothing is posted.
FetchDecodeFail(i) ==
  /\ fetches[i].phase = "decoding"
  /\ ~fetches[i].decodable
  /\ fetches' = [fetches EXCEPT ![i] = [@ EXCEPT !.phase = "done"]]
  /\ UNCHANGED << now, deactivatedSites, pageVars, xhr, loads, nSends, nCalls, chan,
                  bgVars, histVars, nInputs, popupVars, session, lastId,
                  faultVars, prefVars, viewVars >>

(***************************************************************************)
(* interceptor.js: the patched XMLHttpRequest.prototype.open and send.     *)
(* The onload property of the object is [wrap, base]: base is the function *)
(* the page assigned ("none": null), under wrap layers of the function     *)
(* that send installs.                                                     *)
(***************************************************************************)
PageHandlers == {"h", "hThrows"}

\* A function of the page that uses the object for its next request: it calls
\* this.open(NextMethod, NextUrl).
Reopens == "hReopens"
NextMethod == "POST"
NextUrl == "/next"

\* A layer that posts before it calls the handler it replaced.
RECURSIVE RunOnload_PostFirst(_, _, _)
RunOnload_PostFirst(h, active, responseType) ==
  IF h.wrap = 0
    THEN IF h.base = "none" THEN <<>>
         ELSE IF h.base = "hThrows" THEN <<"page", "throw">>
         ELSE <<"page">>
    ELSE IF ~active
           THEN RunOnload_PostFirst([h EXCEPT !.wrap = @ - 1], active, responseType)
         ELSE IF responseType # "text" THEN <<"throw">>
         ELSE <<"post">> \o
              RunOnload_PostFirst([h EXCEPT !.wrap = @ - 1], active, responseType)

\* The handler h runs for a load event: the effects in order.  "page" is a
\* call of the page's function, "post" a postMessage of a capture, "throw" an
\* exception that leaves the handler.  Each installed layer calls the handler
\* it replaced, then, if isActive, reads responseText (which throws unless
\* responseType is '' or 'text') and posts.  "open" is a call of open by the
\* page's function.
RECURSIVE RunOnload(_, _, _)
RunOnload(h, active, responseType) ==
  IF h.wrap = 0
    THEN IF h.base = "none" THEN <<>>
         ELSE IF h.base = "hThrows" THEN <<"page", "throw">>
         ELSE IF h.base = Reopens THEN <<"page", "open">>
         ELSE <<"page">>
    ELSE LET inner == RunOnload([h EXCEPT !.wrap = @ - 1], active, responseType)
         IN  IF inner # <<>> /\ inner[Len(inner)] = "throw" THEN inner
             ELSE IF ~active THEN inner
             ELSE IF responseType # "text" THEN inner \o <<"throw">>
             ELSE inner \o <<"post">>

\* The page assigns xhr.onload.
PageSetOnload(t, h) ==
  /\ injected[t]
  /\ nCalls < MaxCalls
  /\ nCalls' = nCalls + 1
  /\ xhr[t].onload # [wrap |-> 0, base |-> h]
  /\ xhr' = [xhr EXCEPT ![t].onload = [wrap |-> 0, base |-> h]]
  /\ UNCHANGED << now, deactivatedSites, pageVars, fetches, loads, nSends, chan,
                  bgVars, histVars, nInputs, popupVars, session, lastId,
                  faultVars, prefVars, viewVars >>

\* The page sets responseType and calls open(method, url): method and url are
\* kept on the object and the original open runs (a request in progress is
\* dropped).
XhrOpenTo(t, responseType, method, url) ==
  /\ injected[t]
  /\ nCalls < MaxCalls
  /\ nCalls' = nCalls + 1
  /\ \/ xhr[t].state # "opened"
     \/ xhr[t].responseType # responseType
     \/ xhr[t].requestUrl # url
  /\ xhr' = [xhr EXCEPT ![t] =
       [@ EXCEPT !.state = "opened", !.responseType = responseType,
                 !.requestMethod = method, !.requestUrl = url]]
  /\ UNCHANGED << now, deactivatedSites, pageVars, fetches, loads, nSends, chan,
                  bgVars, histVars, nInputs, popupVars, session, lastId,
                  faultVars, prefVars, viewVars >>

\* The page calls open('GET', '/xhr').
XhrOpen(t, responseType) == XhrOpenTo(t, responseType, "GET", "/xhr")

\* The page calls send on an opened object: the current onload is put under a
\* new layer, then the original send runs.
XhrSend(t) ==
  /\ injected[t]
  /\ nCalls < MaxCalls
  /\ nCalls' = nCalls + 1
  /\ nSends' = nSends + 1
  /\ xhr[t].state = "opened"
  /\ xhr' = [xhr EXCEPT ![t] =
       [@ EXCEPT !.onload = [wrap |-> @.wrap + 1, base |-> @.base],
                 !.state = "sent", !.rid = nSends + 1]]
  /\ UNCHANGED << now, deactivatedSites, pageVars, fetches, loads, chan,
                  bgVars, histVars, nInputs, popupVars, session, lastId,
                  faultVars, prefVars, viewVars >>

\* The page's function called open while it ran.
Reopened(effects) == \E j \in DOMAIN effects : effects[j] = "open"

\* The object after open(NextMethod, NextUrl): the response is dropped, so
\* responseText is '' and getResponseHeader returns null.
EmptyText == "empty"

\* The captures a load event posts.  Each layer reads _requestUrl,
\* _requestMethod, responseText and the header from the object when it runs,
\* and the page's function has run by then.
XhrPosts(x, effects, ct, body, ts) ==
  LET msg == IF Reopened(effects)
               THEN [type |-> "INTERCEPTED_REQUEST", url |-> NextUrl,
                     method |-> NextMethod, responseBody |-> EmptyText,
                     contentType |-> JsNull, timestamp |-> ts]
               ELSE [type |-> "INTERCEPTED_REQUEST", url |-> x.requestUrl,
                     method |-> x.requestMethod, responseBody |-> body,
                     contentType |-> ct, timestamp |-> ts]
  IN  [k \in 1..Cardinality({j \in DOMAIN effects : effects[j] = "post"}) |-> msg]

\* The response of the request in progress arrives: the load event is
\* dispatched to the onload property.
XhrLoad(t, ct, body) ==
  /\ injected[t]
  /\ xhr[t].state = "sent"
  /\ now' \in DateNow
  /\ LET x == xhr[t]
         effects == RunOnload(x.onload, isActive[t], x.responseType)
     IN  /\ loads' = Append(loads, [tab |-> t, rid |-> x.rid,
                                    armed |-> isActive[t], handler |-> x.onload,
                                    responseType |-> x.responseType,
                                    effects |-> effects])
         /\ winQ' = [winQ EXCEPT ![t] = @ \o XhrPosts(x, effects, ct, body, now')]
  /\ xhr' = IF Reopened(RunOnload(xhr[t].onload, isActive[t], xhr[t].responseType))
              THEN [xhr EXCEPT ![t] =
                     [@ EXCEPT !.state = "opened", !.requestMethod = NextMethod,
                               !.requestUrl = NextUrl]]
              ELSE [xhr EXCEPT ![t].state = "done"]
  /\ UNCHANGED << deactivatedSites, loaded, pageLoadId, prefPending, injected,
                  isActive, fetches, nSends, nCalls, chan, bgVars, histVars,
                  nInputs, popupVars, session, lastId,
                  faultVars, prefVars, viewVars >>

(***************************************************************************)
(* background.js: the IndexedDB operations.  Each of saveRequest,          *)
(* getRequestsByPageLoadId and clearAllRequests opens the database and     *)
(* issues one request in a transaction of its own on the store 'requests'; *)
(* the open requests of one database are served in the order they were     *)
(* made and transactions with overlapping scope run in the order they were *)
(* created, so the requests take effect in the order of the calls.         *)
(***************************************************************************)
SaveRequest(q, requestData) == Append(q, [op |-> "add", value |-> requestData])

ClearAllRequests(q) == Append(q, [op |-> "clear"])

\* A read that empties the store behind it.
GetRequestsByPageLoadId_Purging(q, id, sup) ==
  ClearAllRequests(
    Append(q, [op |-> "getAll", pageLoadId |-> id, superseded |-> sup]))

GetRequestsByPageLoadId(q, id, sup) ==
  Append(q, [op |-> "getAll", pageLoadId |-> id, superseded |-> sup])

\* A store whose keys start again at 1.
AddKey_Restart(value, gen) == 1

\* store.add(value) on a store with keyPath 'id' and autoIncrement: a value
\* without an id is stored under the next key of the key generator, a value
\* with an id under that id.
AddKey(value, gen) == IF "id" \in DOMAIN value THEN value.id ELSE gen

StoreAdd(st, key, value) == st \cup {Spread(value, [id |-> key])}

\* index('pageLoadId').getAll(id)
IndexGetAll(st, id) == {r \in st : r.pageLoadId = id}

\* The add request executes.  It fails with ConstraintError when a record has
\* the key already (saveRequest rejects and the handler logs the error); a key
\* not below the generator's value moves the generator past it.
DbAdd ==
  /\ dbQueue # <<>>
  /\ Head(dbQueue).op = "add"
  /\ LET value == Head(dbQueue).value
         key == AddKey(value, keyGen)
     IN  IF \E r \in store : r.id = key
           THEN UNCHANGED << store, keyGen, lastId,
                  faultVars, prefVars, viewVars >>
           ELSE /\ store' = StoreAdd(store, key, value)
                /\ keyGen' = IF key >= keyGen THEN key + 1 ELSE keyGen
                /\ lastId' = key
  /\ dbQueue' = Tail(dbQueue)
  /\ UNCHANGED << now, deactivatedSites, pageVars, netVars, chan, getLogsReply,
                  histVars, nInputs, popupVars, session,
                  faultVars, prefVars, viewVars >>

\* The branch of the listener that called clearAllRequests gives the promise
\* its then and catch callbacks: the clear requests that handling message
\* added to the queue q0, which made it q1, are marked with the message.
CalledBy(q0, q1, message) ==
  [i \in DOMAIN q1 |->
     IF i > Len(q0) /\ q1[i].op = "clear"
       THEN Spread(q1[i], [by |-> message]) ELSE q1[i]]

\* The type of the message whose handler waits for request r.
Caller(r) ==
  IF r.op = "add" THEN "INTERCEPTED_REQUEST"
  ELSE IF r.op = "getAll" THEN "GET_LOGS"
  ELSE IF r.op = "delete" THEN "DELETE_LOG"
  ELSE IF r.op = "askGetAll" THEN "ASK_GEMINI"
  ELSE IF "by" \in DOMAIN r THEN r.by.type
  ELSE "none"

\* store.clear(): every record goes; the key generator is not reset.  The
\* CLEAR_ALL_LOGS branch replies {status: 'ok'}.
DbClear ==
  /\ dbQueue # <<>>
  /\ Head(dbQueue).op = "clear"
  /\ store' = {}
  /\ clearReplies' = IF Caller(Head(dbQueue)) = "CLEAR_ALL_LOGS"
                       THEN Append(clearReplies, "ok") ELSE clearReplies
  /\ dbQueue' = Tail(dbQueue)
  /\ UNCHANGED << now, deactivatedSites, pageVars, netVars, chan, keyGen,
                  getLogsReply, histVars, nInputs, popupVars, session, lastId,
                  faults, prefVars, viewVars >>

\* parseInt(s) of a string: the number its leading decimal digits denote, NaN
\* when it starts with none.
DigitValue(c) == CHOOSE d \in 0..9 : Digits[d + 1] = c
IsDigit(c) == \E d \in 0..9 : Digits[d + 1] = c

RECURSIVE ParseDigits(_, _)
ParseDigits(s, acc) ==
  IF s = <<>> \/ ~IsDigit(Head(s)) THEN acc
  ELSE ParseDigits(Tail(s), 10 * acc + DigitValue(Head(s)))

ParseInt(s) ==
  IF s = <<>> \/ ~IsDigit(Head(s)) THEN [nan |-> TRUE, n |-> 0]
  ELSE [nan |-> FALSE, n |-> ParseDigits(s, 0)]

DeleteRequestById(q, logId, id) ==
  Append(q, [op |-> "delete", logId |-> logId, id |-> id])

\* A delete of the key range up to key (IDBKeyRange.upperBound(key)).
StoreDelete_UpTo(st, key) == {r \in st : r.id > key}

\* store.delete(key): the record with that key goes, if there is one.
StoreDelete(st, key) == {r \in st : r.id # key}

\* A delete request that fails with NotFoundError for a key without record.
DeleteSucceeds_Strict(st, key) == \E r \in st : r.id = key

\* Whether the delete request fires onsuccess: it does for every valid key,
\* with or without a record.
DeleteSucceeds(st, key) == TRUE

\* The delete request executes and the DELETE_LOG handler replies.  NaN is not
\* a valid key: store.delete throws DataError, deleteRequestById rejects and the
\* reply is {success: false, error}.
DbDelete ==
  /\ dbQueue # <<>>
  /\ Head(dbQueue).op = "delete"
  /\ LET d == Head(dbQueue)
         ok == ~d.id.nan /\ DeleteSucceeds(store, d.id.n)
     IN  /\ store' = IF ok THEN StoreDelete(store, d.id.n) ELSE store
         /\ deleteReplies' = Append(deleteReplies,
                                    [logId |-> d.logId, success |-> ok])
  /\ dbQueue' = Tail(dbQueue)
  /\ UNCHANGED << now, deactivatedSites, pageVars, netVars, chan, keyGen,
                  getLogsReply, histVars, nInputs, session, lastId, sync, asks,
                  faultVars, prefVars, viewVars >>

\* The array index.getAll resolves with: the records in the order of their
\* keys.
RECURSIVE InKeyOrder(_)
InKeyOrder(logs) ==
  IF logs = {} THEN <<>>
  ELSE LET first == CHOOSE r \in logs : \A o \in logs : r.id <= o.id
       IN  <<first>> \o InKeyOrder(logs \ {first})

(***************************************************************************)
(* popup.js: displayLogs.  The url and the responseBody of a log are       *)
(* strings the popup searches in: Text gives their characters.             *)
(***************************************************************************)
Text(s) ==
  CASE s = "/api" -> <<"/","a","p","i">>
    [] s = "/forged" -> <<"/","f","o","r","g","e","d">>
    [] s = "/posted" -> <<"/","p","o","s","t","e","d">>
    [] s = "/fetch" -> <<"/","f","e","t","c","h">>
    [] s = "/xhr" -> <<"/","x","h","r">>
    [] s = "b1" -> <<"{","\"","B","\"",":","1","}">>
    [] s = "b2" -> <<"{","\"","B","\"",":","2","}">>
    [] OTHER -> <<>>

UpperCase == <<"A","B","C","D","E","F","G","H","I","J","K","L","M",
               "N","O","P","Q","R","S","T","U","V","W","X","Y","Z">>
LowerCase == <<"a","b","c","d","e","f","g","h","i","j","k","l","m",
               "n","o","p","q","r","s","t","u","v","w","x","y","z">>

\* String.prototype.toLowerCase
ToLowerCase(cs) ==
  [i \in DOMAIN cs |->
     IF \E k \in DOMAIN UpperCase : UpperCase[k] = cs[i]
       THEN LowerCase[CHOOSE k \in DOMAIN UpperCase : UpperCase[k] = cs[i]]
       ELSE cs[i]]

\* String.prototype.trim, for strings with spaces as their only white space.
RECURSIVE TrimStart(_)
TrimStart(cs) ==
  IF cs # <<>> /\ Head(cs) = " " THEN TrimStart(Tail(cs)) ELSE cs
RECURSIVE TrimEnd(_)
TrimEnd(cs) ==
  IF cs # <<>> /\ cs[Len(cs)] = " " THEN TrimEnd(SubSeq(cs, 1, Len(cs) - 1)) ELSE cs
Trim(cs) == TrimEnd(TrimStart(cs))

\* What the user types into the search box.
SearchTerms == { <<>>, <<"A","P","I">>, <<"!","B","\"",":","1">>, <<"!"," ">> }

\* A comparator that puts the oldest first.
CompareLogs_OldestFirst(a, b) == a.timestamp - b.timestamp

\* The comparator of logs.sort: (a, b) => b.timestamp - a.timestamp
CompareLogs(a, b) == b.timestamp - a.timestamp

\* Array.prototype.sort with CompareLogs: a stable sort, so a log goes behind
\* every log that the comparator does not put behind it.
RECURSIVE InsertLog(_, _)
InsertLog(sorted, log) ==
  IF sorted = <<>> THEN <<log>>
  ELSE IF CompareLogs(Head(sorted), log) <= 0
    THEN <<Head(sorted)>> \o InsertLog(Tail(sorted), log)
  ELSE <<log>> \o sorted

RECURSIVE SortLogs(_)
SortLogs(logs) ==
  IF logs = <<>> THEN <<>>
  ELSE InsertLog(SortLogs(SubSeq(logs, 1, Len(logs) - 1)), logs[Len(logs)])

\* log.url.toLowerCase().includes(keyword) ||
\* log.responseBody.toLowerCase().includes(keyword)
MatchesKeyword(log, keyword) ==
  \/ Includes(ToLowerCase(Text(log.url)), keyword)
  \/ Includes(ToLowerCase(Text(log.responseBody)), keyword)

RECURSIVE FilterOut(_, _)
FilterOut(logs, keyword) ==
  IF logs = <<>> THEN <<>>
  ELSE (IF MatchesKeyword(Head(logs), keyword) THEN <<>> ELSE <<Head(logs)>>)
       \o FilterOut(Tail(logs), keyword)

RECURSIVE FilterIn(_, _)
FilterIn(logs, keyword) ==
  IF logs = <<>> THEN <<>>
  ELSE (IF MatchesKeyword(Head(logs), keyword) THEN <<Head(logs)>> ELSE <<>>)
       \o FilterIn(Tail(logs), keyword)

\* The search filter of displayLogs, for the value of the search box.
FilteredLogs(logs, value) ==
  LET searchTerm == ToLowerCase(value)
  IN  IF searchTerm = <<>> THEN logs
      ELSE IF Head(searchTerm) = "!"
        THEN LET excludeKeyword == Trim(Tail(searchTerm))
             IN  IF excludeKeyword = <<>> THEN logs
                 ELSE FilterOut(logs, excludeKeyword)
      ELSE FilterIn(logs, searchTerm)

\* The texts of the counter: 'Loading...', 'Error: ...', '0 JSON responses
\* captured' and 'X of Y JSON responses captured'.
LoadingCount == [kind |-> "loading", shown |-> 0, of |-> 0]
ErrorCount == [kind |-> "error", shown |-> 0, of |-> 0]
ZeroCount == [kind |-> "zero", shown |-> 0, of |-> 0]
OfCount(x, y) == [kind |-> "of", shown |-> x, of |-> y]

\* displayLogs(logs): the list and the counter it leaves.
DisplayLogs(logs, value) ==
  IF Len(logs) = 0 THEN [list |-> <<>>, count |-> ZeroCount]
  ELSE LET sorted == SortLogs(logs)
           filteredLogs == FilteredLogs(sorted, value)
       IN  [list |-> filteredLogs, count |-> OfCount(Len(filteredLogs), Len(sorted))]

\* getAll succeeds and the GET_LOGS handler replies {logs}; the callback of
\* loadLogs displays them.
DbGetAll ==
  /\ dbQueue # <<>>
  /\ Head(dbQueue).op = "getAll"
  /\ getLogsReply' = [pageLoadId |-> Head(dbQueue).pageLoadId,
                      logs |-> IndexGetAll(store, Head(dbQueue).pageLoadId),
                      superseded |-> Head(dbQueue).superseded,
                      valid |-> TRUE]
  /\ LET logs == InKeyOrder(IndexGetAll(store, Head(dbQueue).pageLoadId))
     IN  /\ logsList' = DisplayLogs(logs, searchInput).list
         /\ logsCount' = DisplayLogs(logs, searchInput).count
  /\ dbQueue' = Tail(dbQueue)
  /\ UNCHANGED << now, deactivatedSites, pageVars, netVars, chan, store, keyGen,
                  histVars, nInputs, popupVars, session, lastId,
                  faultVars, prefVars, popupTab, currentPageLoadId,
                  siteToggleLabel, searchInput >>

\* A listener that replies to no failed operation.
FaultReply_Silent(type) == "none"

\* What the catch callback of the branch for messages of this type does with
\* the error, besides console.error: it replies {error} to the popup, or
\* nothing, when the message came from a content script.
FaultReply(type) ==
  IF type \in {"GET_LOGS", "DELETE_LOG", "CLEAR_ALL_LOGS"} THEN "error" ELSE "none"

\* The request at the head of the queue fails: the database cannot be opened
\* or the request fires onerror.  The promise of saveRequest, clearAllRequests,
\* getRequestsByPageLoadId or deleteRequestById rejects, the store stays as it
\* is, and the catch callback of the branch that made the call runs.
DbFail ==
  /\ dbQueue # <<>>
  /\ Head(dbQueue).op # "askGetAll"
  /\ Len(faults) < MaxFaults
  /\ LET r == Head(dbQueue)
         type == Caller(r)
         replied == FaultReply(type) = "error"
     IN  /\ faults' = Append(faults, [type |-> type, reply |-> FaultReply(type)])
         /\ getLogsReply' =
              IF type = "GET_LOGS" /\ replied
                THEN [pageLoadId |-> r.pageLoadId, logs |-> {},
                      superseded |-> r.superseded, valid |-> FALSE]
                ELSE getLogsReply
         /\ deleteReplies' =
              IF type = "DELETE_LOG" /\ replied
                THEN Append(deleteReplies, [logId |-> r.logId, success |-> FALSE])
                ELSE deleteReplies
         /\ clearReplies' =
              IF type = "CLEAR_ALL_LOGS" /\ replied
                THEN Append(clearReplies, "error") ELSE clearReplies
         /\ logsCount' = IF type = "GET_LOGS" /\ replied
                            THEN ErrorCount ELSE logsCount
  /\ dbQueue' = Tail(dbQueue)
  /\ UNCHANGED << now, deactivatedSites, pageVars, netVars, chan, store, keyGen,
                  histVars, nInputs, session, lastId, sync, asks, prefVars,
                  popupTab, currentPageLoadId, siteToggleLabel, searchInput,
                  logsList >>

(***************************************************************************)
(* background.js: the chrome.runtime.onMessage listener.                   *)
(***************************************************************************)
\* The filter with === in place of includes.
IsJsonResponse_Exact(message) == message.contentType = JsStr(AppJson)

\* message.contentType && message.contentType.includes('application/json')
IsJsonResponse(message) ==
  Truthy(message.contentType) /\ Includes(message.contentType.chars, AppJson)

\* A handler that stamps the record itself.
RequestData_Restamped(message) ==
  [url |-> message.url, method |-> message.method,
   responseBody |-> message.responseBody, contentType |-> message.contentType,
   timestamp |-> 0, pageLoadId |-> message.pageLoadId]

\* A handler that hands the message itself to saveRequest.
RequestData_Whole(message) == message

\* The object the INTERCEPTED_REQUEST branch hands to saveRequest.
RequestData(message) ==
  [url |-> message.url, method |-> message.method,
   responseBody |-> message.responseBody, contentType |-> message.contentType,
   timestamp |-> message.timestamp, pageLoadId |-> message.pageLoadId]

\* The INTERCEPTED_REQUEST branch with a purge before each save.
OnIntercepted_Purging(q, message) ==
  IF IsJsonResponse(message)
    THEN SaveRequest(ClearAllRequests(q), RequestData(message)) ELSE q

\* The queue after the INTERCEPTED_REQUEST branch handled message.
OnIntercepted(q, message) ==
  IF IsJsonResponse(message) THEN SaveRequest(q, RequestData(message)) ELSE q

\* The NEW_PAGE_LOAD branch without the purge.
OnNewPageLoad_NoPurge(q) == q

\* The queue after the NEW_PAGE_LOAD branch ran.
OnNewPageLoad(q) == ClearAllRequests(q)

\* The queue after the CLEAR_ALL_LOGS branch ran.
OnClearAllLogs(q) == ClearAllRequests(q)

\* The clearAllRequests() calls waiting in the queue.
ClearsIn(q) == Cardinality({i \in DOMAIN q : q[i].op = "clear"})

BgOnNewPageLoad(t) ==
  /\ chan[t] # <<>>
  /\ Head(chan[t]).type = "NEW_PAGE_LOAD"
  /\ chan' = [chan EXCEPT ![t] = Tail(@)]
  /\ dbQueue' = CalledBy(dbQueue, OnNewPageLoad(dbQueue), Head(chan[t]))
  /\ handled' = [type |-> "NEW_PAGE_LOAD", saved |-> FALSE]
  /\ lastNew' = Head(chan[t]).pageLoadId
  /\ sincePurge' = {}
  /\ UNCHANGED << now, deactivatedSites, pageVars, netVars, store, keyGen,
                  getLogsReply, nInputs, popupVars, session, lastId,
                  faultVars, prefVars, viewVars >>

BgOnIntercepted(t) ==
  /\ chan[t] # <<>>
  /\ Head(chan[t]).type = "INTERCEPTED_REQUEST"
  /\ chan' = [chan EXCEPT ![t] = Tail(@)]
  /\ dbQueue' = OnIntercepted(dbQueue, Head(chan[t]))
  /\ handled' = [type |-> "INTERCEPTED_REQUEST",
                 saved |-> Len(dbQueue') > Len(dbQueue)]
  /\ sincePurge' = IF Len(dbQueue') > Len(dbQueue)
                     THEN sincePurge \cup {Head(chan[t]).pageLoadId}
                     ELSE sincePurge
  /\ UNCHANGED << now, deactivatedSites, pageVars, netVars, store, keyGen,
                  getLogsReply, lastNew, nInputs, popupVars, session, lastId,
                  faultVars, prefVars, viewVars >>

\* The pageLoadId values a content script can have had.
SessionIds == {NumToString(n) : n \in 1..MaxClock}

\* GET_LOGS from the popup (popup.js loadLogs), with value in the search box:
\* the counter shows 'Loading...' and the listener starts the read.  The
\* request is marked superseded when a NEW_PAGE_LOAD of another session was
\* handled after every capture of session id handled so far.
LoadLogs(id, value) ==
  /\ nInputs < MaxInputs
  /\ nInputs' = nInputs + 1
  /\ searchInput' = value
  /\ logsCount' = LoadingCount
  /\ handled' = [type |-> "GET_LOGS", saved |-> FALSE]
  /\ dbQueue' = GetRequestsByPageLoadId(dbQueue, id,
                   lastNew # <<>> /\ lastNew # id /\ id \notin sincePurge)
  /\ UNCHANGED << now, deactivatedSites, pageVars, netVars, chan, store, keyGen,
                  getLogsReply, lastNew, sincePurge, popupVars, session, lastId,
                  faultVars, prefVars, popupTab, currentPageLoadId,
                  siteToggleLabel, logsList >>

BgOnGetLogs(id) == LoadLogs(id, searchInput)

\* The user types into the search box: the listener of its input event calls
\* loadLogs.
SearchInput(value) ==
  /\ currentPageLoadId # <<>>
  /\ value # searchInput
  /\ LoadLogs(currentPageLoadId, value)

\* CLEAR_ALL_LOGS from the popup (the Clear All button of popup.js).
BgOnClearAllLogs ==
  /\ nInputs < MaxInputs
  /\ nInputs' = nInputs + 1
  /\ handled' = [type |-> "CLEAR_ALL_LOGS", saved |-> FALSE]
  /\ dbQueue' = CalledBy(dbQueue, OnClearAllLogs(dbQueue),
                         [type |-> "CLEAR_ALL_LOGS"])
  /\ UNCHANGED << now, deactivatedSites, pageVars, netVars, chan, store, keyGen,
                  getLogsReply, lastNew, sincePurge, popupVars, session, lastId,
                  faultVars, prefVars, viewVars >>

\* The log ids the popup sends: the id of a record as a string (the data-id
\* attribute of its delete button), and a string that is no number.
LogIds == { <<"1">>, <<"2">>, <<"x">> }

\* DELETE_LOG from the popup (the delete button of a log item).
BgOnDeleteLog(logId) ==
  /\ nInputs < MaxInputs
  /\ nInputs' = nInputs + 1
  /\ handled' = [type |-> "DELETE_LOG", saved |-> FALSE]
  /\ dbQueue' = DeleteRequestById(dbQueue, logId, ParseInt(logId))
  /\ UNCHANGED << now, deactivatedSites, pageVars, netVars, chan, store, keyGen,
                  getLogsReply, lastNew, sincePurge, popupVars, session, lastId,
                  faultVars, prefVars, viewVars >>

(***************************************************************************)
(* background.js: ASK_GEMINI.  An Ask is a record of asks: phase "storage" *)
(* while chrome.storage.sync.get is pending, "reading" while               *)
(* getRequestsByPageLoadId is, "calling" while the fetch to the provider   *)
(* is, "done" when the callback has run to its end.                        *)
(***************************************************************************)
Gemini == <<"g","e","m","i","n","i">>
OpenRouter == <<"o","p","e","n","r","o","u","t","e","r">>
OtherProvider == <<"c","l","a","u","d","e">>

\* The values chrome.storage.sync holds for apiProvider and for the two keys:
\* nothing, the empty string, a one-letter string, and a string of ten
\* characters that starts with 'AI'.
ProviderValues == { JsUndefined, JsStr(Gemini), JsStr(OpenRouter), JsStr(OtherProvider) }
ShortKey == <<"x">>
LongKey == <<"A","I","z","a","S","y","0","1","2","3">>
KeyValues == { JsUndefined, JsStr(<<>>), JsStr(ShortKey), JsStr(LongKey) }

\* chrome.storage.sync.set({apiProvider, geminiApiKey, openrouterApiKey}).
SyncSet(provider, geminiKey, openrouterKey) ==
  /\ nInputs < MaxInputs
  /\ nInputs' = nInputs + 1
  /\ sync' = [apiProvider |-> provider, geminiApiKey |-> geminiKey,
              openrouterApiKey |-> openrouterKey]
  /\ UNCHANGED << now, deactivatedSites, pageVars, netVars, chan, bgVars,
                  histVars, session, lastId, asks, deleteReplies,
                  faultVars, prefVars, viewVars >>

\* String.prototype.startsWith
StartsWith(s, prefix) ==
  Len(s) >= Len(prefix) /\ SubSeq(s, 1, Len(prefix)) = prefix

\* result.apiProvider || 'gemini'
ApiProvider(result) ==
  IF Truthy(result.apiProvider) THEN result.apiProvider.chars ELSE Gemini

\* The key the chosen provider is called with.
ApiKey(result) ==
  IF ApiProvider(result) = Gemini THEN result.geminiApiKey
  ELSE IF ApiProvider(result) = OpenRouter THEN result.openrouterApiKey
  ELSE JsUndefined

\* Checks that let every key of a known provider pass.
CredentialCheck_Lenient(result) ==
  IF ApiProvider(result) \in {Gemini, OpenRouter} THEN "ok" ELSE "none"

\* The checks of the callback before the logs are read: "missing" and
\* "invalid" are the two error replies, "ok" goes on, "none" is a provider
\* that neither branch is for.
CredentialCheck(result) ==
  IF ApiProvider(result) = Gemini
    THEN IF ~Truthy(result.geminiApiKey) THEN "missing"
         ELSE IF ~StartsWith(result.geminiApiKey.chars, <<"A","I">>)
                 \/ Len(result.geminiApiKey.chars) < 10 THEN "invalid"
         ELSE "ok"
  ELSE IF ApiProvider(result) = OpenRouter
    THEN IF ~Truthy(result.openrouterApiKey) THEN "missing" ELSE "ok"
  ELSE "none"

\* sendResponse({error}) and sendResponse({answer}).
ErrorReply(what) == [kind |-> "error", what |-> what]
AnswerReply(what) == [kind |-> "answer", what |-> what]

\* The questions the popup sends, and the texts in the responses of a provider
\* and in the errors thrown on the way: strings that are copied as they are,
\* each a sequence of one piece.
Questions == { <<"How many users?">>, <<"Which ids?">> }
StatusText == <<"Too Many Requests">>
ProviderMessage == <<"Quota exceeded">>
AnswerText == <<"Two users.">>
NoAnswerFound == <<"No answer found.">>
FetchErrorMessage == <<"Failed to fetch">>
SyntaxErrorMessage == <<"Unexpected token < in JSON at position 0">>
TypeErrorMessage == <<"Cannot read properties of undefined (reading 'message')">>
NullErrorMessage == <<"Cannot read properties of null (reading 'candidates')">>

\* What the fetch to the provider ends with.  settled: the promise is
\* "fulfilled" with a Response or "rejected".  ok and statusText are those of
\* the Response.  body is what response.json() makes of its body: parse is
\* "syntaxError" for a body that is no JSON, "null" for the JSON null,
\* "object" for a JSON object, which has or has not a member error, with or
\* without a message, and at the place of the answer (candidates[0].content
\* .parts[0].text, choices[0].message.content) a string or nothing.
NoError == [present |-> FALSE, message |-> JsUndefined]
ErrorObject(message) == [present |-> TRUE, message |-> message]
JsonBody(parse, error, text) == [parse |-> parse, error |-> error, text |-> text]
Response(settled, ok, body) ==
  [settled |-> settled, ok |-> ok, statusText |-> StatusText, body |-> body]
NoResponse == Response("none", FALSE, JsonBody("none", NoError, JsUndefined))

\* ASK_GEMINI from the popup (askGemini of popup.js): storage.sync.get starts.
BgOnAskGemini(id, question) ==
  /\ nInputs < MaxInputs
  /\ nInputs' = nInputs + 1
  /\ Len(asks) < MaxAsks
  /\ handled' = [type |-> "ASK_GEMINI", saved |-> FALSE]
  /\ asks' = Append(asks, [pageLoadId |-> id, question |-> question,
                            phase |-> "storage",
                            provider |-> <<>>, key |-> JsUndefined,
                            reads |-> 0, calls |-> 0, replies |-> <<>>,
                            logs |-> {}, prompt |-> <<>>,
                            response |-> NoResponse, text |-> <<>>])
  /\ UNCHANGED << now, deactivatedSites, pageVars, netVars, chan, bgVars,
                  lastNew, sincePurge, session, lastId, sync, deleteReplies,
                  faultVars, prefVars, viewVars >>

\* The callback of storage.sync.get for Ask i, up to its first await or its
\* return.
AskOnSettings(i) ==
  /\ asks[i].phase = "storage"
  /\ LET check == CredentialCheck(sync)
         a == [asks[i] EXCEPT !.provider = ApiProvider(sync), !.key = ApiKey(sync)]
     IN  IF check = "ok"
           THEN /\ asks' = [asks EXCEPT ![i] =
                             [a EXCEPT !.phase = "reading", !.reads = @ + 1]]
                /\ dbQueue' = Append(dbQueue, [op |-> "askGetAll", ask |-> i,
                                               pageLoadId |-> a.pageLoadId])
           ELSE /\ asks' = [asks EXCEPT ![i] =
                             [a EXCEPT !.phase = "done",
                                       !.replies = IF check = "none" THEN @
                                                   ELSE Append(@, ErrorReply(check))]]
                /\ dbQueue' = dbQueue
  /\ UNCHANGED << now, deactivatedSites, pageVars, netVars, chan, store, keyGen,
                  getLogsReply, histVars, nInputs, session, lastId, sync,
                  deleteReplies,
                  faultVars, prefVars, viewVars >>

\* The prompt is a sequence of parts, each a sequence of strings that starts
\* with what the part is: "text" for text of the template or text put into
\* it as it is, "json" for the JSON string literal JSON.stringify makes of a
\* string, in quotes and with its quotes and control characters escaped.
TextPart(cs) == <<"text">> \o cs
JsonString(cs) == <<"json">> \o cs

\* new Date(timestamp).toISOString()
ToISOString(timestamp) == <<"T">> \o NumToString(timestamp) \o <<"Z">>

\* A map that keeps every property of the record.
FormattedLog_Whole(log) ==
  Spread(log, [timestamp |-> ToISOString(log.timestamp)])

\* logs.map((log) => ({url, method, responseBody, timestamp}))
FormattedLog(log) ==
  [url |-> log.url, method |-> log.method, responseBody |-> log.responseBody,
   timestamp |-> ToISOString(log.timestamp)]

\* The properties an object of the array can have, in the order in which
\* they were created, which is the order JSON.stringify writes them in.
JsonKeys ==
  <<"url", "method", "responseBody", "contentType", "timestamp", "pageLoadId", "id">>

\* JSON.stringify of the value of property k: a string literal, a number or
\* null.
JsonValue(k, v) ==
  CASE k \in {"timestamp", "pageLoadId"} -> JsonString(v)
    [] k = "id" -> TextPart(NumToString(v))
    [] k = "contentType" ->
         IF v.tag = "string" THEN JsonString(v.chars) ELSE TextPart(<<"null">>)
    [] OTHER -> JsonString(<<v>>)

\* JSON.stringify of one object: every property it has, name and value.
RECURSIVE JsonObject(_, _)
JsonObject(log, keys) ==
  IF keys = <<>> THEN <<>>
  ELSE (IF Head(keys) \in DOMAIN log
          THEN << TextPart(<<Head(keys)>>), JsonValue(Head(keys), log[Head(keys)]) >>
          ELSE <<>>)
       \o JsonObject(log, Tail(keys))

\* JSON.stringify(formattedLogs, null, 2)
RECURSIVE JsonStringify(_)
JsonStringify(formattedLogs) ==
  IF formattedLogs = <<>> THEN <<>>
  ELSE JsonObject(Head(formattedLogs), JsonKeys)
       \o JsonStringify(Tail(formattedLogs))

\* The prompt of callGeminiAPI and of callOpenRouterAPI.
Prompt(logs, question) ==
  << TextPart(<<"Here are the JSON responses captured from a webpage during a single session:">>) >>
  \o JsonStringify([i \in DOMAIN logs |-> FormattedLog(logs[i])])
  \o << TextPart(<<"User's question: ">>), TextPart(question),
        TextPart(<<"Based on the provided JSON responses, please answer the user's question.">>) >>

\* getRequestsByPageLoadId resolves for Ask i: callGeminiAPI or
\* callOpenRouterAPI builds the prompt and starts its fetch.
DbAskGetAll ==
  /\ dbQueue # <<>>
  /\ Head(dbQueue).op = "askGetAll"
  /\ LET i == Head(dbQueue).ask
         logs == IndexGetAll(store, Head(dbQueue).pageLoadId)
     IN  asks' = [asks EXCEPT ![i] =
                   [@ EXCEPT !.phase = "calling", !.calls = @ + 1,
                             !.logs = logs,
                             !.prompt = Prompt(InKeyOrder(logs), asks[i].question)]]
  /\ dbQueue' = Tail(dbQueue)
  /\ UNCHANGED << now, deactivatedSites, pageVars, netVars, chan, store, keyGen,
                  getLogsReply, histVars, nInputs, session, lastId, sync,
                  deleteReplies,
                  faultVars, prefVars, viewVars >>

\* getRequestsByPageLoadId rejects for Ask i (the database cannot be opened or
\* the request fails): the catch of the callback replies {error}.
DbAskGetAllFail ==
  /\ dbQueue # <<>>
  /\ Head(dbQueue).op = "askGetAll"
  /\ asks' = [asks EXCEPT ![Head(dbQueue).ask] =
               [@ EXCEPT !.phase = "done",
                         !.replies = Append(@, ErrorReply("storage"))]]
  /\ dbQueue' = Tail(dbQueue)
  /\ UNCHANGED << now, deactivatedSites, pageVars, netVars, chan, store, keyGen,
                  getLogsReply, histVars, nInputs, session, lastId, sync,
                  deleteReplies,
                  faultVars, prefVars, viewVars >>

\* How the fetch to the provider ends: it fails, or it gets a response that
\* is ok or not ok, with one of the bodies.
ErrorBodies ==
  { JsonBody("syntaxError", NoError, JsUndefined),
    JsonBody("object", NoError, JsUndefined),
    JsonBody("object", ErrorObject(JsUndefined), JsUndefined),
    JsonBody("object", ErrorObject(JsStr(ProviderMessage)), JsUndefined) }
AnswerBodies ==
  { JsonBody("syntaxError", NoError, JsUndefined),
    JsonBody("null", NoError, JsUndefined),
    JsonBody("object", NoError, JsUndefined),
    JsonBody("object", NoError, JsStr(<<>>)),
    JsonBody("object", NoError, JsStr(AnswerText)) }
ProviderOutcomes ==
  { Response("rejected", FALSE, JsonBody("none", NoError, JsUndefined)) }
    \cup { Response("fulfilled", FALSE, body) : body \in ErrorBodies }
    \cup { Response("fulfilled", TRUE, body) : body \in AnswerBodies }

\* Of these, one of each kind: no response, an error with a message, a
\* response without an answer and one with an answer.
AskOutcomes ==
  { Response("rejected", FALSE, JsonBody("none", NoError, JsUndefined)),
    Response("fulfilled", FALSE,
             JsonBody("object", ErrorObject(JsStr(ProviderMessage)), JsUndefined)),
    Response("fulfilled", TRUE, JsonBody("object", NoError, JsUndefined)),
    Response("fulfilled", TRUE, JsonBody("object", NoError, JsStr(AnswerText))) }

Thrown(message) == [thrown |-> TRUE, text |-> message]
Returned(answer) == [thrown |-> FALSE, text |-> answer]

\* The prefixes of the two functions' error messages.
ApiErrorPrefix(provider) ==
  IF provider = Gemini THEN <<"Gemini API error: ">> ELSE <<"OpenRouter API error: ">>
CatchPrefix(provider) ==
  IF provider = Gemini THEN <<"Failed to communicate with Gemini API: ">>
  ELSE <<"Failed to communicate with OpenRouter API: ">>

\* errorData.error.message || response.statusText, read from the body of a
\* response that is not ok.
ErrorMessage(response) ==
  IF Truthy(response.body.error.message)
    THEN response.body.error.message.chars ELSE response.statusText

\* An answer that is an error when the response has no answer text.
ApiTry_NoFallback(provider, response) ==
  IF response.settled = "rejected" THEN Thrown(FetchErrorMessage)
  ELSE IF response.body.parse = "syntaxError" THEN Thrown(SyntaxErrorMessage)
  ELSE IF ~response.ok
    THEN IF ~response.body.error.present THEN Thrown(TypeErrorMessage)
         ELSE Thrown(ApiErrorPrefix(provider) \o ErrorMessage(response))
  ELSE IF response.body.parse = "null" \/ ~Truthy(response.body.text)
    THEN Thrown(NullErrorMessage)
  ELSE Returned(response.body.text.chars)

\* The try block of callGeminiAPI (callOpenRouterAPI) from the end of the
\* fetch on: what it throws or returns.
ApiTry(provider, response) ==
  IF response.settled = "rejected" THEN Thrown(FetchErrorMessage)
  ELSE IF response.body.parse = "syntaxError" THEN Thrown(SyntaxErrorMessage)
  ELSE IF ~response.ok
    THEN IF ~response.body.error.present THEN Thrown(TypeErrorMessage)
         ELSE Thrown(ApiErrorPrefix(provider) \o ErrorMessage(response))
  ELSE IF response.body.parse = "null" THEN Thrown(NullErrorMessage)
  ELSE Returned(IF Truthy(response.body.text)
                  THEN response.body.text.chars ELSE NoAnswerFound)

\* callGeminiAPI (callOpenRouterAPI) from the end of the fetch on: the catch
\* wraps whatever the try block threw.
CallApi(provider, response) ==
  LET r == ApiTry(provider, response)
  IN  IF r.thrown THEN Thrown(CatchPrefix(provider) \o r.text) ELSE r

\* An Ask whose provider call is made again after it failed.
OnProviderFailure_Retry(a) == [a EXCEPT !.calls = @ + 1]

\* The provider call of Ask a failed: callGeminiAPI (callOpenRouterAPI) throws
\* and the catch of the callback replies {error}.
OnProviderFailure(a) ==
  [a EXCEPT !.phase = "done", !.replies = Append(@, ErrorReply("provider"))]

\* The provider call of Ask a returned: the callback replies {answer}, with
\* 'No answer found.' when the response has none.
OnProviderAnswer(a, outcome) ==
  [a EXCEPT !.phase = "done", !.replies = Append(@, AnswerReply(outcome))]

\* The fetch to the provider for Ask i ends; text is the string of the reply,
\* error.message or the answer.
ProviderResponds(i, response) ==
  /\ asks[i].phase = "calling"
  /\ LET r == CallApi(asks[i].provider, response)
         a == [asks[i] EXCEPT !.response = response, !.text = r.text]
     IN  asks' = [asks EXCEPT ![i] =
                   IF r.thrown THEN OnProviderFailure(a)
                   ELSE OnProviderAnswer(a, IF Truthy(response.body.text)
                                              THEN "answer" ELSE "noAnswer")]
  /\ UNCHANGED << now, deactivatedSites, pageVars, netVars, chan, bgVars,
                  histVars, nInputs, session, lastId, sync, deleteReplies,
                  faultVars, prefVars, viewVars >>

(***************************************************************************)
(* The bridge and the store: page loads in two tabs, window messages of    *)
(* type INTERCEPTED_REQUEST, the background listener and the database.     *)
(***************************************************************************)
NextStore ==
  \/ \E t \in Tabs : PageLoad(t)
  \/ \E t \in Tabs, ct \in ContentTypes : ContentOnPosted(t, ct, "b1")
  \/ \E t \in Tabs : BgOnNewPageLoad(t)
  \/ \E t \in Tabs : BgOnIntercepted(t)
  \/ \E id \in SessionIds : BgOnGetLogs(id)
  \/ BgOnClearAllLogs
  \/ DbAdd
  \/ DbClear
  \/ DbGetAll

SpecStore == Init /\ [][NextStore]_vars

(***************************************************************************)
(* The interceptor in the page of one tab.  Responses come with no         *)
(* Content-Type header or with 'application/json; charset=utf-8'.          *)
(***************************************************************************)
ResponseTypes == { JsNull, JsStr(AppJson \o Charset) }

\* One XMLHttpRequest object the page opens, sends and reuses, with the
\* handlers it assigns and the activation state relayed by content.js.
NextXhr ==
  \/ (~loaded["A"] /\ PageLoad("A"))
  \/ InjectInterceptor("A")
  \/ \E b \in BOOLEAN : ContentOnSetActivationState("A", b)
  \/ WinDeliver("A")
  \/ \E h \in PageHandlers \cup {"none"} : PageSetOnload("A", h)
  \/ \E rt \in {"text", "json"} : XhrOpen("A", rt)
  \/ XhrSend("A")
  \/ \E ct \in ResponseTypes : XhrLoad("A", ct, "b2")

SpecXhr == Init /\ [][NextXhr]_vars

\* The popup is opened for the page of tab t and loads its logs, once.
PopupLoadLogs(t) ==
  /\ loaded[t]
  /\ ~getLogsReply.valid
  /\ \A k \in DOMAIN dbQueue : dbQueue[k].op # "getAll"
  /\ BgOnGetLogs(pageLoadId[t])

\* The fetch calls of the page of one tab, from the call to the record: the
\* wrapper, content.js, the background listener, the database and GET_LOGS
\* for the session of the page.
NextFetch ==
  \/ (~loaded["A"] /\ PageLoad("A"))
  \/ InjectInterceptor("A")
  \/ \E b \in BOOLEAN : ContentOnSetActivationState("A", b)
  \/ WinDeliver("A")
  \/ FetchCall("A")
  \/ \E i \in DOMAIN fetches, ct \in ResponseTypes, dec \in BOOLEAN :
        FetchResolve(i, ct, "b1", dec)
  \/ \E i \in DOMAIN fetches : FetchReject(i)
  \/ \E i \in DOMAIN fetches : FetchDecoded(i)
  \/ \E i \in DOMAIN fetches : FetchDecodeFail(i)
  \/ BgOnNewPageLoad("A")
  \/ BgOnIntercepted("A")
  \/ PopupLoadLogs("A")
  \/ DbAdd
  \/ DbClear
  \/ DbGetAll

SpecFetch == Init /\ [][NextFetch]_vars

\* Fetch calls and one XMLHttpRequest object with a handler of the page, under
\* the activation state relayed by content.js.
NextPage ==
  \/ (~loaded["A"] /\ PageLoad("A"))
  \/ InjectInterceptor("A")
  \/ \E b \in BOOLEAN : ContentOnSetActivationState("A", b)
  \/ WinDeliver("A")
  \/ FetchCall("A")
  \/ \E i \in DOMAIN fetches, dec \in BOOLEAN :
        FetchResolve(i, JsStr(AppJson \o Charset), "b1", dec)
  \/ \E i \in DOMAIN fetches : FetchReject(i)
  \/ \E i \in DOMAIN fetches : FetchDecoded(i)
  \/ \E i \in DOMAIN fetches : FetchDecodeFail(i)
  \/ PageSetOnload("A", "h")
  \/ XhrOpen("A", "text")
  \/ XhrSend("A")
  \/ XhrLoad("A", JsStr(AppJson \o Charset), "b2")

SpecPage == Init /\ [][NextPage]_vars

(***************************************************************************)
(* The bridge with its window messages: pages in two tabs post captures,   *)
(* forged captures and other messages; content.js forwards them, the       *)
(* background listener saves them.                                         *)
(***************************************************************************)
NextBridge ==
  \/ \E t \in Tabs : PageLoad(t)
  \/ \E t \in Tabs, kind \in PageEventKinds : PagePost(t, kind)
  \/ \E t \in Tabs : WinDeliver(t)
  \/ \E t \in Tabs : BgOnNewPageLoad(t)
  \/ \E t \in Tabs : BgOnIntercepted(t)
  \/ DbAdd
  \/ DbClear

SpecBridge == Init /\ [][NextBridge]_vars

\* The records of the pages of one tab: saved, purged, deleted by the popup
\* and read by it.
NextRecords ==
  \/ PageLoad("A")
  \/ \E kind \in PageEventKinds : PagePost("A", kind)
  \/ WinDeliver("A")
  \/ BgOnNewPageLoad("A")
  \/ BgOnIntercepted("A")
  \/ \E id \in SessionIds : BgOnGetLogs(id)
  \/ \E logId \in LogIds : BgOnDeleteLog(logId)
  \/ DbAdd
  \/ DbClear
  \/ DbGetAll
  \/ DbDelete

SpecRecords == Init /\ [][NextRecords]_vars

(***************************************************************************)
(* The questions of the popup: the settings in chrome.storage.sync, the    *)
(* ASK_GEMINI handler, its read of the logs and its call of the provider.  *)
(***************************************************************************)
NextAsk ==
  \/ \E provider \in ProviderValues, geminiKey, openrouterKey \in KeyValues :
        SyncSet(provider, geminiKey, openrouterKey)
  \/ BgOnAskGemini(<<"1">>, <<"How many users?">>)
  \/ \E i \in DOMAIN asks : AskOnSettings(i)
  \/ DbAskGetAll
  \/ DbAskGetAllFail
  \/ \E i \in DOMAIN asks, response \in AskOutcomes :
        ProviderResponds(i, response)

SpecAsk == Init /\ [][NextAsk]_vars

(***************************************************************************)
(* The site toggle: the user switches it in the popup, the page of the tab *)
(* is loaded again and again, and the page uses one XMLHttpRequest object. *)
(***************************************************************************)
NextToggle ==
  \/ PageLoad("A")
  \/ InjectInterceptor("A")
  \/ \E isEnabling \in BOOLEAN : PopupSiteToggle("A", isEnabling)
  \/ WinDeliver("A")
  \/ XhrOpen("A", "text")
  \/ XhrSend("A")
  \/ XhrLoad("A", JsStr(AppJson), "b2")

SpecToggle == Init /\ [][NextToggle]_vars

(***************************************************************************)
(* Storage faults: the page of one tab, the popup's three requests, and    *)
(* IndexedDB operations that fail.                                         *)
(***************************************************************************)
NextFault ==
  \/ (~loaded["A"] /\ PageLoad("A"))
  \/ PagePost("A", "capture")
  \/ WinDeliver("A")
  \/ BgOnNewPageLoad("A")
  \/ BgOnIntercepted("A")
  \/ PopupLoadLogs("A")
  \/ BgOnDeleteLog(<<"1">>)
  \/ BgOnClearAllLogs
  \/ DbAdd
  \/ DbClear
  \/ DbGetAll
  \/ DbDelete
  \/ DbFail

SpecFault == Init /\ [][NextFault]_vars

(***************************************************************************)
(* The provider call.  chrome.storage.sync holds a key from an earlier run *)
(* of the browser: a Gemini key, or an OpenRouter key of one letter.  The  *)
(* page of one tab, loaded once, posts captures, the popup asks for the    *)
(* session of the page, and the fetch to the provider ends in each of the  *)
(* ways.                                                                   *)
(***************************************************************************)
StoredSettings ==
  { [apiProvider |-> JsStr(Gemini), geminiApiKey |-> JsStr(LongKey),
     openrouterApiKey |-> JsUndefined],
    [apiProvider |-> JsStr(OpenRouter), geminiApiKey |-> JsUndefined,
     openrouterApiKey |-> JsStr(ShortKey)] }

InitProvider ==
  /\ now = 1
  /\ deactivatedSites = Absent
  /\ loaded = [t \in Tabs |-> FALSE]
  /\ pageLoadId = [t \in Tabs |-> <<>>]
  /\ prefPending = [t \in Tabs |-> FALSE]
  /\ injected = [t \in Tabs |-> FALSE]
  /\ isActive = [t \in Tabs |-> TRUE]
  /\ winQ = [t \in Tabs |-> <<>>]
  /\ fetches = <<>>
  /\ xhr = [t \in Tabs |-> NewXhr]
  /\ loads = <<>>
  /\ chan = [t \in Tabs |-> <<>>]
  /\ dbQueue = <<>>
  /\ store = {}
  /\ keyGen = 1
  /\ getLogsReply = NoReply
  /\ nInputs = 0
  /\ nSends = 0
  /\ nCalls = 0
  /\ handled = [type |-> "none", saved |-> FALSE]
  /\ lastNew = <<>>
  /\ sincePurge = {}
  /\ session = 0
  /\ lastId = 0
  /\ sync \in StoredSettings
  /\ asks = <<>>
  /\ deleteReplies = <<>>
  /\ clearReplies = <<>>
  /\ faults = <<>>
  /\ enabledDomains = {}
  /\ userPref = [h \in Hostnames |-> "none"]
  /\ startPref = [t \in Tabs |-> "none"]
  /\ popupTab = "none"
  /\ currentPageLoadId = <<>>
  /\ siteToggleLabel = "none"
  /\ searchInput = <<>>
  /\ logsList = <<>>
  /\ logsCount = NoCount

\* The Ask button of the popup opened for the page of tab t (askGemini of
\* popup.js sends currentPageLoadId and the question).  The button is
\* disabled from the click until the reply is there.
PopupAsk(t, question) ==
  /\ loaded[t]
  /\ \A i \in DOMAIN asks : asks[i].replies # <<>>
  /\ BgOnAskGemini(pageLoadId[t], question)

NextProvider ==
  \/ (~loaded["A"] /\ PageLoad("A") /\ now' = now)
  \/ \E body \in Bodies : ContentOnPosted("A", JsStr(AppJson), body)
  \/ BgOnNewPageLoad("A")
  \/ BgOnIntercepted("A")
  \/ DbAdd
  \/ DbClear
  \/ \E question \in Questions : PopupAsk("A", question)
  \/ \E i \in DOMAIN asks : AskOnSettings(i)
  \/ DbAskGetAll
  \/ \E i \in DOMAIN asks, response \in ProviderOutcomes :
        ProviderResponds(i, response)

SpecProvider == InitProvider /\ [][NextProvider]_vars

(***************************************************************************)
(* popup.js: initPopup.                                                    *)
(***************************************************************************)
\* A listener that answers GET_PAGE_LOAD_ID with the time of the request.
PageLoadIdReply_Fresh(t) == NumToString(now)

\* The reply of the listener of content.js to GET_PAGE_LOAD_ID.
PageLoadIdReply(t) == pageLoadId[t]

\* The popup is opened on tab t: initPopup sends GET_PAGE_LOAD_ID to the tab,
\* the content script replies, currentPageLoadId is set and loadLogs sends
\* GET_LOGS; setupSiteToggle asks the storage for 'enabledDomains'.  The
\* document of the popup is new: nothing searched, nothing listed.
InitPopup(t) ==
  /\ loaded[t]
  /\ nInputs < MaxInputs
  /\ nInputs' = nInputs + 1
  /\ popupTab' = t
  /\ currentPageLoadId' = PageLoadIdReply(t)
  /\ siteToggleLabel' = "none"
  /\ searchInput' = <<>>
  /\ logsList' = <<>>
  /\ logsCount' = LoadingCount
  /\ handled' = [type |-> "GET_LOGS", saved |-> FALSE]
  /\ dbQueue' = GetRequestsByPageLoadId(dbQueue, currentPageLoadId',
                   lastNew # <<>> /\ lastNew # currentPageLoadId'
                     /\ currentPageLoadId' \notin sincePurge)
  /\ UNCHANGED << now, deactivatedSites, pageVars, netVars, chan, store, keyGen,
                  getLogsReply, lastNew, sincePurge, popupVars, session, lastId,
                  faultVars, prefVars >>

\* The callback of chrome.storage.local.get('enabledDomains') of
\* setupSiteToggle: the toggle and its label show whether the hostname of the
\* tab is in the list.
SetupSiteToggle(t) ==
  /\ popupTab = t
  /\ siteToggleLabel = "none"
  /\ LET domains == enabledDomains
     IN  siteToggleLabel' = ToggleLabel(Hostname(t) \in domains)
  /\ UNCHANGED << now, deactivatedSites, pageVars, netVars, chan, bgVars,
                  histVars, nInputs, popupVars, session, lastId, faultVars,
                  prefVars, popupTab, currentPageLoadId, searchInput, logsList,
                  logsCount >>

\* The Refresh button of the popup: loadLogs.
PopupRefresh ==
  /\ currentPageLoadId # <<>>
  /\ BgOnGetLogs(currentPageLoadId)

\* The Ask button of the popup: askGemini sends currentPageLoadId and the
\* question; the button is disabled from the click until the reply is there.
PopupAskGemini(question) ==
  /\ currentPageLoadId # <<>>
  /\ \A i \in DOMAIN asks : asks[i].replies # <<>>
  /\ BgOnAskGemini(currentPageLoadId, question)

(***************************************************************************)
(* The queries of the popup: the page of one tab, loaded once, calls       *)
(* fetch, and the popup opened on the tab reads the logs and asks.         *)
(***************************************************************************)
NextQuery ==
  \/ (~loaded["A"] /\ PageLoad("A"))
  \/ InjectInterceptor("A")
  \/ (isActive["A"] /\ winQ["A"] = <<>> /\ ContentOnSetActivationState("A", FALSE))
  \/ (fetches = <<>> /\ FetchCall("A"))
  \/ \E i \in DOMAIN fetches : FetchResolve(i, JsStr(AppJson), "b1", TRUE)
  \/ \E i \in DOMAIN fetches : FetchDecoded(i)
  \/ WinDeliver("A")
  \/ BgOnNewPageLoad("A")
  \/ BgOnIntercepted("A")
  \/ DbAdd
  \/ DbClear
  \/ (popupTab = "none" /\ InitPopup("A"))
  \/ (getLogsReply.valid /\ PopupRefresh)
  \/ DbGetAll
  \/ (asks = <<>> /\ PopupAskGemini(<<"How many users?">>))
  \/ \E i \in DOMAIN asks : AskOnSettings(i)
  \/ DbAskGetAll
  \/ DbAskGetAllFail
  \/ \E i \in DOMAIN asks, response \in AskOutcomes :
        ProviderResponds(i, response)

SpecQuery == InitProvider /\ [][NextQuery]_vars

(***************************************************************************)
(* The logs of an Ask: the pages of two tabs, each loaded once, call       *)
(* fetch, and the popup asks about the page of tab A.                      *)
(***************************************************************************)
NextAskLogs ==
  \/ \E t \in Tabs : (~loaded[t] /\ PageLoad(t))
  \/ \E t \in Tabs : InjectInterceptor(t)
  \/ \E t \in Tabs : ((\A i \in DOMAIN fetches : fetches[i].tab # t) /\ FetchCall(t))
  \/ \E i \in DOMAIN fetches : FetchResolve(i, JsStr(AppJson), "b1", TRUE)
  \/ \E i \in DOMAIN fetches : FetchDecoded(i)
  \/ \E t \in Tabs : WinDeliver(t)
  \/ \E t \in Tabs : BgOnNewPageLoad(t)
  \/ \E t \in Tabs : BgOnIntercepted(t)
  \/ DbAdd
  \/ DbClear
  \/ (asks = <<>> /\ PopupAsk("A", <<"Which ids?">>))
  \/ \E i \in DOMAIN asks : AskOnSettings(i)
  \/ DbAskGetAll
  \/ \E i \in DOMAIN asks :
        ProviderResponds(i, Response("fulfilled", TRUE,
                                     JsonBody("object", NoError, JsStr(AnswerText))))

SpecAskLogs == InitProvider /\ [][NextAskLogs]_vars

(***************************************************************************)
(* Requests in flight at once: the page of one tab has two fetch calls and *)
(* the request of an XMLHttpRequest object under way, the responses arrive *)
(* in any order, and the function the page gave the object as onload uses  *)
(* the object for the next request.  The server answers each url with a    *)
(* Content-Type and a body of its own.                                     *)
(***************************************************************************)
FetchRequests == { [url |-> "/fetch", method |-> "GET"],
                   [url |-> "/users", method |-> "PUT"] }
XhrRequests == { [url |-> "/xhr", method |-> "GET"],
                 [url |-> NextUrl, method |-> NextMethod] }

ServerResponse(url) ==
  CASE url = "/fetch" -> [contentType |-> JsStr(AppJson), body |-> "b1"]
    [] url = "/users" -> [contentType |-> JsStr(AppJson \o Charset), body |-> "b3"]
    [] url = "/xhr" -> [contentType |-> JsStr(TextHtml), body |-> "b2"]
    [] OTHER -> [contentType |-> JsNull, body |-> "b4"]

NextConcurrent ==
  \/ (~loaded["A"] /\ PageLoad("A"))
  \/ InjectInterceptor("A")
  \/ \E q \in FetchRequests :
        ((\A i \in DOMAIN fetches : fetches[i].url # q.url)
           /\ FetchCallTo("A", q.url, q.method))
  \/ \E i \in DOMAIN fetches :
        FetchResolve(i, ServerResponse(fetches[i].url).contentType,
                     ServerResponse(fetches[i].url).body, TRUE)
  \/ \E i \in DOMAIN fetches : FetchDecoded(i)
  \/ PageSetOnload("A", Reopens)
  \/ (xhr["A"].state = "unsent" /\ XhrOpen("A", "text"))
  \/ XhrSend("A")
  \/ XhrLoad("A", ServerResponse(xhr["A"].requestUrl).contentType,
              ServerResponse(xhr["A"].requestUrl).body)
  \/ WinDeliver("A")

SpecConcurrent == Init /\ [][NextConcurrent]_vars

(***************************************************************************)
(* Sites switched off in storage: 'deactivatedSites' holds nothing or any  *)
(* list of the hostnames when the pages of two tabs are loaded; each page  *)
(* calls fetch and the user switches one site off in the popup.            *)
(***************************************************************************)
InitListed ==
  /\ now = 1
  /\ deactivatedSites \in StoredLists
  /\ loaded = [t \in Tabs |-> FALSE]
  /\ pageLoadId = [t \in Tabs |-> <<>>]
  /\ prefPending = [t \in Tabs |-> FALSE]
  /\ injected = [t \in Tabs |-> FALSE]
  /\ isActive = [t \in Tabs |-> TRUE]
  /\ winQ = [t \in Tabs |-> <<>>]
  /\ fetches = <<>>
  /\ xhr = [t \in Tabs |-> NewXhr]
  /\ loads = <<>>
  /\ chan = [t \in Tabs |-> <<>>]
  /\ dbQueue = <<>>
  /\ store = {}
  /\ keyGen = 1
  /\ getLogsReply = NoReply
  /\ nInputs = 0
  /\ nSends = 0
  /\ nCalls = 0
  /\ handled = [type |-> "none", saved |-> FALSE]
  /\ lastNew = <<>>
  /\ sincePurge = {}
  /\ session = 0
  /\ lastId = 0
  /\ sync = NoSettings
  /\ asks = <<>>
  /\ deleteReplies = <<>>
  /\ clearReplies = <<>>
  /\ faults = <<>>
  /\ enabledDomains = {}
  /\ userPref = [h \in Hostnames |-> "none"]
  /\ startPref = [t \in Tabs |-> "none"]
  /\ popupTab = "none"
  /\ currentPageLoadId = <<>>
  /\ siteToggleLabel = "none"
  /\ searchInput = <<>>
  /\ logsList = <<>>
  /\ logsCount = NoCount

NextListed ==
  \/ \E t \in Tabs : ~loaded[t] /\ PageLoad(t)
  \/ \E t \in Tabs : InjectInterceptor(t)
  \/ \E t \in Tabs :
       popupTab = "none" /\ ~prefPending[t] /\ PopupSiteToggle(t, FALSE)
  \/ \E t \in Tabs : WinDeliver(t)
  \/ \E t \in Tabs : (\A i \in DOMAIN fetches : fetches[i].tab # t) /\ FetchCall(t)
  \/ \E i \in DOMAIN fetches : FetchResolve(i, JsStr(AppJson), "b1", TRUE)
  \/ \E i \in DOMAIN fetches : FetchDecoded(i)

SpecListed == InitListed /\ [][NextListed]_vars

(***************************************************************************)
(* The label of the site toggle: the page of one tab is loaded and loaded  *)
(* again and calls fetch once; the popup is opened on the tab, shows the   *)
(* state stored for the site, and the user switches the toggle.            *)
(***************************************************************************)
NextLabel ==
  \/ PageLoad("A")
  \/ InjectInterceptor("A")
  \/ InitPopup("A")
  \/ SetupSiteToggle("A")
  \/ DbGetAll
  \/ \E isEnabling \in BOOLEAN :
       /\ popupTab = "A"
       /\ siteToggleLabel = ToggleLabel(~isEnabling)
       /\ PopupSiteToggle("A", isEnabling)
  \/ WinDeliver("A")
  \/ fetches = <<>> /\ FetchCall("A")
  \/ \E i \in DOMAIN fetches : FetchResolve(i, JsStr(AppJson), "b1", TRUE)
  \/ \E i \in DOMAIN fetches : FetchDecoded(i)

SpecLabel == Init /\ [][NextLabel]_vars

(***************************************************************************)
(* The list of the popup: the page of one tab fetches two resources at     *)
(* different times, the popup is opened on the tab and the user types into *)
(* the search box.                                                         *)
(***************************************************************************)
ListedUrls == {"/api", "/fetch"}

NextDisplay ==
  \/ (~loaded["A"] /\ PageLoad("A"))
  \/ InjectInterceptor("A")
  \/ \E url \in ListedUrls :
        ((\A i \in DOMAIN fetches : fetches[i].url # url)
           /\ FetchCallTo("A", url, "GET"))
  \/ \E i \in DOMAIN fetches : \E body \in {"b1", "b2"} :
        FetchResolve(i, JsStr(AppJson), body, TRUE)
  \/ \E i \in DOMAIN fetches : FetchDecoded(i)
  \/ WinDeliver("A")
  \/ BgOnNewPageLoad("A")
  \/ BgOnIntercepted("A")
  \/ DbAdd
  \/ DbClear
  \/ (popupTab = "none" /\ InitPopup("A"))
  \/ \E value \in SearchTerms :
        (dbQueue = <<>> /\ getLogsReply.valid /\ SearchInput(value))
  \/ DbGetAll

SpecDisplay == Init /\ [][NextDisplay]_vars

(***************************************************************************)
(* The session of the popup: the page of one tab is loaded and loaded      *)
(* again, its scripts post captures, and the popup is opened on the tab.   *)
(***************************************************************************)
NextSession ==
  \/ PageLoad("A")
  \/ \E kind \in {"capture", "forged"} : PagePost("A", kind)
  \/ WinDeliver("A")
  \/ BgOnNewPageLoad("A")
  \/ BgOnIntercepted("A")
  \/ DbAdd
  \/ DbClear
  \/ InitPopup("A")
  \/ DbGetAll

SpecSession == Init /\ [][NextSession]_vars

(***************************************************************************)
(* The delete button: the pages of two tabs, each loaded once, call fetch; *)
(* the captures are stored and the popup sends DELETE_LOG.                 *)
(***************************************************************************)
\* The delete button of a log item of the popup, clicked once.
PopupDelete(logId) ==
  /\ deleteReplies = <<>>
  /\ \A k \in DOMAIN dbQueue : dbQueue[k].op # "delete"
  /\ BgOnDeleteLog(logId)

NextDelete ==
  \/ \E t \in Tabs : (~loaded[t] /\ PageLoad(t))
  \/ \E t \in Tabs : InjectInterceptor(t)
  \/ \E t \in Tabs : ((\A i \in DOMAIN fetches : fetches[i].tab # t) /\ FetchCall(t))
  \/ \E i \in DOMAIN fetches : FetchResolve(i, JsStr(AppJson), "b1", TRUE)
  \/ \E i \in DOMAIN fetches : FetchDecoded(i)
  \/ \E t \in Tabs : WinDeliver(t)
  \/ \E t \in Tabs : BgOnNewPageLoad(t)
  \/ \E t \in Tabs : BgOnIntercepted(t)
  \/ \E logId \in LogIds : PopupDelete(logId)
  \/ DbAdd
  \/ DbClear
  \/ DbDelete

SpecDelete == Init /\ [][NextDelete]_vars

(***************************************************************************)
(* Claims about the bridge and the store.                                  *)
(***************************************************************************)
\* The background listener consumes the first message of chan[t] in this step.
Consumes(t, ty) ==
  /\ chan[t] # <<>>
  /\ Head(chan[t]).type = ty
  /\ chan'[t] = Tail(chan[t])

\* C1: for every INTERCEPTED_REQUEST message the background listener handles,
\* a save of exactly its six fields is requested if and only if its
\* contentType is a string that contains 'application/json', the store itself
\* is untouched by the handler, nothing is replied, and the requested save,
\* once executed, adds that record under a key of the store.
C1_FilterCorrect ==
  [][ /\ \A t \in Tabs :
           Consumes(t, "INTERCEPTED_REQUEST") =>
             LET m == Head(chan[t])
                 json == /\ m.contentType.tag = "string"
                         /\ \E i \in 1..Len(m.contentType.chars) :
                              /\ i + 15 <= Len(m.contentType.chars)
                              /\ SubSeq(m.contentType.chars, i, i + 15) = AppJson
                 rec == [url |-> m.url, method |-> m.method,
                         responseBody |-> m.responseBody,
                         contentType |-> m.contentType,
                         timestamp |-> m.timestamp,
                         pageLoadId |-> m.pageLoadId]
             IN  /\ store' = store
                 /\ getLogsReply' = getLogsReply
                 /\ dbQueue' = IF json
                                 THEN Append(dbQueue, [op |-> "add", value |-> rec])
                                 ELSE dbQueue
      /\ (dbQueue # <<>> /\ Head(dbQueue).op = "add" /\ dbQueue' = Tail(dbQueue)) =>
           \E r \in store' \ store :
             /\ store' = store \cup {r}
             /\ \A k \in DOMAIN Head(dbQueue).value : r[k] = Head(dbQueue).value[k]
    ]_vars

\* A message with 'application/json; charset=utf-8' was stored and the message
\* handled last, which was not JSON, was dropped.
C1_Witness ==
  /\ handled = [type |-> "INTERCEPTED_REQUEST", saved |-> FALSE]
  /\ dbQueue = <<>>
  /\ \E r \in store : r.contentType = JsStr(AppJson \o Charset)

\* C2: a GET_LOGS reply holds only records of the session asked for, and the
\* reply to a GET_LOGS(s1) handled after the NEW_PAGE_LOAD of another session
\* s2, itself handled after every capture forwarded under s1 (their saves may
\* still be in flight), is empty.
C2_SessionIsolation ==
  getLogsReply.valid =>
    /\ \A r \in getLogsReply.logs : r.pageLoadId = getLogsReply.pageLoadId
    /\ getLogsReply.superseded => getLogsReply.logs = {}

\* Tab A holds session 1 and posted a JSON capture, tab B then started session
\* 2, and GET_LOGS(1) was answered: the one record ever added is gone.
C2_Witness ==
  /\ nInputs = 4
  /\ pageLoadId["A"] = <<"1">>
  /\ pageLoadId["B"] = <<"2">>
  /\ lastNew = <<"2">>
  /\ keyGen = 2
  /\ store = {}
  /\ getLogsReply.valid
  /\ getLogsReply.superseded
  /\ getLogsReply.pageLoadId = <<"1">>

\* C3: the store never holds records of more than one session.
C3_SingleSessionStore == Cardinality({r.pageLoadId : r \in store}) <= 1

\* C4 as stated: every NEW_PAGE_LOAD handled calls clearAllRequests exactly
\* once, and nothing else ever calls it.
C4_OnlyNewPageLoadClears ==
  [][ /\ \A t \in Tabs :
           Consumes(t, "NEW_PAGE_LOAD") => ClearsIn(dbQueue') = ClearsIn(dbQueue) + 1
      /\ ClearsIn(dbQueue') > ClearsIn(dbQueue) => handled'.type = "NEW_PAGE_LOAD"
    ]_vars

\* C4 amended: every NEW_PAGE_LOAD handled and every CLEAR_ALL_LOGS handled
\* calls clearAllRequests exactly once, and no other message or action calls
\* it.
C4_ClearTriggers ==
  [][ /\ \A t \in Tabs :
           Consumes(t, "NEW_PAGE_LOAD") => ClearsIn(dbQueue') = ClearsIn(dbQueue) + 1
      /\ (nInputs' = nInputs + 1 /\ handled'.type = "CLEAR_ALL_LOGS" /\ chan' = chan) =>
           ClearsIn(dbQueue') = ClearsIn(dbQueue) + 1
      /\ ClearsIn(dbQueue') > ClearsIn(dbQueue) =>
           /\ ClearsIn(dbQueue') = ClearsIn(dbQueue) + 1
           /\ handled'.type \in {"NEW_PAGE_LOAD", "CLEAR_ALL_LOGS"}
           /\ handled'.type = "NEW_PAGE_LOAD" => \E t \in Tabs : Consumes(t, "NEW_PAGE_LOAD")
    ]_vars

\* A NEW_PAGE_LOAD and then a CLEAR_ALL_LOGS were handled, and the two purges
\* they requested are both waiting.
C4_Witness ==
  /\ handled.type = "CLEAR_ALL_LOGS"
  /\ lastNew # <<>>
  /\ ClearsIn(dbQueue) = 2

(***************************************************************************)
(* Claims about the interceptor.                                           *)
(***************************************************************************)
\* The captures among the window message events q.
Captures(q) == Cardinality({j \in DOMAIN q : q[j].type = "INTERCEPTED_REQUEST"})

\* How often effect e occurs in the effects of a load event.
Times(effects, e) == Cardinality({j \in DOMAIN effects : effects[j] = e})

\* Nothing of tab t is in flight between the page and the store.
Drained(t) ==
  /\ winQ[t] = <<>>
  /\ chan[t] = <<>>
  /\ dbQueue = <<>>
  /\ \A i \in DOMAIN fetches : fetches[i].phase = "done"

\* C5: once nothing is in flight any more, GET_LOGS for the session of the
\* page returns, for every fetch call whose response arrived while isActive was
\* true with a Content-Type containing 'application/json' and a decodable
\* body, a record with the response text as responseBody, and exactly one when
\* no other call got the same text (the page was loaded once and the only
\* purge is the one of its NEW_PAGE_LOAD).
C5_FetchCaptured ==
  ( /\ Drained("A")
    /\ getLogsReply.valid
    /\ getLogsReply.pageLoadId = pageLoadId["A"]
    /\ getLogsReply.logs = IndexGetAll(store, pageLoadId["A"]) ) =>
    \A i \in DOMAIN fetches :
      LET f == fetches[i]
          recs == {r \in getLogsReply.logs :
                     r.url = f.url /\ r.responseBody = f.body}
          same == {j \in DOMAIN fetches : fetches[j].body = f.body}
      IN  ( /\ f.outcome = "resolved"
            /\ f.armedAtArrival
            /\ f.decodable
            /\ f.contentType.tag = "string"
            /\ Includes(f.contentType.chars, AppJson) ) =>
            /\ recs # {}
            /\ Cardinality(same) = 1 => Cardinality(recs) = 1

\* C6: every load event of an XMLHttpRequest dispatched while isActive is true
\* posts at least one capture, whatever the order of open, the assignment of
\* onload and send (here for requests with responseType 'text' and handlers
\* of the page that return normally).
C6_XhrLoadEmits ==
  \A k \in DOMAIN loads :
    ( /\ loads[k].armed
      /\ loads[k].responseType = "text"
      /\ loads[k].handler.base # "hThrows" ) =>
      Times(loads[k].effects, "post") >= 1

\* C7: no response causes more than one capture: a load event posts at most
\* once, also on an XMLHttpRequest object used for several open/send cycles,
\* and a fetch call posts at most once.
C7_AtMostOneCapture ==
  /\ \A k \in DOMAIN loads : Times(loads[k].effects, "post") <= 1
  /\ \A i \in DOMAIN fetches : fetches[i].emitted <= 1

\* C8: no step taken while isActive is false posts a capture; all the same
\* every fetch call settles as the original fetch did, with its response, and
\* every load event dispatched while isActive is false runs the function the
\* page assigned to onload, and nothing else.
C8_UnarmedSilent ==
  /\ [][ \A t \in Tabs :
            ~isActive[t] => Captures(winQ'[t]) <= Captures(winQ[t]) ]_vars
  /\ [](\A i \in DOMAIN fetches :
           /\ fetches[i].outcome = "resolved" => fetches[i].pageGot = "response"
           /\ fetches[i].outcome = "rejected" => fetches[i].pageGot = "rejected")
  /\ [](\A k \in DOMAIN loads :
           ~loads[k].armed =>
             loads[k].effects =
               IF loads[k].handler.base = "none" THEN <<>> ELSE <<"page">>)

\* isActive is false; a fetch call whose response arrived after that got its
\* response and posted nothing, and a load event ran the page's handler and
\* posted nothing.
C8_Witness ==
  /\ ~isActive["A"]
  /\ Captures(winQ["A"]) = 0
  /\ chan["A"] = <<[type |-> "NEW_PAGE_LOAD", pageLoadId |-> pageLoadId["A"]]>>
  /\ \E i \in DOMAIN fetches :
       /\ fetches[i].phase = "done"
       /\ fetches[i].outcome = "resolved"
       /\ fetches[i].decodable
       /\ ~fetches[i].armedAtArrival
       /\ fetches[i].pageGot = "response"
       /\ fetches[i].emitted = 0
  /\ \E k \in DOMAIN loads :
       /\ ~loads[k].armed
       /\ loads[k].handler = [wrap |-> 1, base |-> "h"]
       /\ loads[k].effects = <<"page">>

\* C9: the wrapper calls the original fetch once per call, its promise
\* settles with the response the original resolved with and rejects exactly
\* when the original rejects, a failed text() of the clone posts nothing and
\* leaves what the page got as it is, and every text() that succeeds while
\* isActive is true posts its capture, whatever happened to other calls.
C9_FetchPassThrough ==
  /\ [](\A i \in DOMAIN fetches :
           LET f == fetches[i]
           IN  /\ f.origCalls = 1
               /\ f.outcome = "pending" => f.pageGot = "pending"
               /\ f.outcome = "resolved" => f.pageGot = "response"
               /\ f.outcome = "rejected" => f.pageGot = "rejected" /\ f.emitted = 0
               /\ (f.phase = "done" /\ ~f.decodable) => f.emitted = 0)
  /\ [][ \A i \in DOMAIN fetches :
            (i \in DOMAIN fetches' /\ fetches[i].phase = "decoding"
               /\ fetches'[i].phase = "done") =>
              /\ fetches'[i].pageGot = fetches[i].pageGot
              /\ (fetches[i].decodable /\ isActive[fetches[i].tab]) =>
                   /\ fetches'[i].emitted = 1
                   /\ Captures(winQ'[fetches[i].tab]) =
                        Captures(winQ[fetches[i].tab]) + 1 ]_vars

\* The text() of the first call failed: the page got its response and nothing
\* was posted; the second call, made later, posted its capture.
C9_Witness ==
  /\ Len(fetches) = 2
  /\ fetches[1].phase = "done"
  /\ fetches[1].outcome = "resolved"
  /\ ~fetches[1].decodable
  /\ fetches[1].pageGot = "response"
  /\ fetches[1].emitted = 0
  /\ fetches[2].phase = "done"
  /\ fetches[2].pageGot = "response"
  /\ fetches[2].emitted = 1
  /\ Captures(winQ["A"]) = 1

\* C10: for every load event of a request sent with a function of the page in
\* onload, that function is called exactly once, first of all, so before any
\* capture of the response is posted, and what it throws is not swallowed.
C10_PageHandlerFirst ==
  \A k \in DOMAIN loads :
    (loads[k].handler.wrap >= 1 /\ loads[k].handler.base # "none") =>
      LET e == loads[k].effects
      IN  /\ Times(e, "page") = 1
          /\ e[1] = "page"
          /\ loads[k].handler.base = "hThrows" => e = <<"page", "throw">>

\* An object sent twice with the page's handler in place: at the second load
\* the handler ran once, before the two captures.
C10_Witness ==
  \E k \in DOMAIN loads :
    /\ loads[k].handler = [wrap |-> 2, base |-> "h"]
    /\ loads[k].armed
    /\ loads[k].effects = <<"page", "post", "post">>

(***************************************************************************)
(* Claims about tagging and the records.                                   *)
(***************************************************************************)
\* The message content.js sends in this step from tab t, if it sends one.
Forwards(t) == Len(chan'[t]) = Len(chan[t]) + 1 /\ loaded'[t] = loaded[t]
             /\ pageLoadId'[t] = pageLoadId[t]

\* C11: every INTERCEPTED_REQUEST that content.js forwards carries the
\* pageLoadId of the content script that forwards it, whatever pageLoadId the
\* window message had, so every message waiting for the background and every
\* record carries a pageLoadId that a content script took from the clock,
\* never none and never the one of the page's choosing.
C11_BridgeTags ==
  /\ [][ \A t \in Tabs :
            Forwards(t) =>
              LET m == chan'[t][Len(chan'[t])]
              IN  /\ "pageLoadId" \in DOMAIN m
                  /\ m.pageLoadId = pageLoadId[t]
                  /\ m.pageLoadId # <<>> ]_vars
  /\ [](\A t \in Tabs : \A k \in DOMAIN chan[t] :
           /\ "pageLoadId" \in DOMAIN chan[t][k]
           /\ \E n \in 1..MaxClock : chan[t][k].pageLoadId = NumToString(n))
  /\ [](\A r \in store :
           /\ "pageLoadId" \in DOMAIN r
           /\ r.pageLoadId # ForgedSession
           /\ \E n \in 1..MaxClock : r.pageLoadId = NumToString(n))

\* The capture the page posted with pageLoadId '9' is stored under the
\* pageLoadId of the content script of tab A.
C11_Witness ==
  /\ pageLoadId["A"] = <<"2">>
  /\ \E r \in store : r.url = "/forged" /\ r.pageLoadId = <<"2">>

\* C12: a capture posted before the session that is current when content.js
\* forwards it had started (its timestamp is earlier than the clock value the
\* content script started last took as pageLoadId) is forwarded with the
\* pageLoadId of that current session.
C12_TagCurrentAtForward ==
  [][ \A t \in Tabs :
        Forwards(t) =>
          LET m == chan'[t][Len(chan'[t])]
          IN  (m.type = "INTERCEPTED_REQUEST" /\ m.timestamp < session) =>
                m.pageLoadId = NumToString(session) ]_vars

\* C13: the object handed to saveRequest never has an id, whatever the message
\* had, and every record added gets the value of the store's key generator as
\* its id, which then moves on by one.
C13_StoreAssignsId ==
  /\ [](\A k \in DOMAIN dbQueue :
           dbQueue[k].op = "add" => "id" \notin DOMAIN dbQueue[k].value)
  /\ [][ \A r \in store' \ store : r.id = keyGen /\ keyGen' = keyGen + 1 ]_vars

\* The capture the page posted with id 7 is the first record: its id is 1.
C13_Witness ==
  /\ keyGen = 2
  /\ \E r \in store : r.url = "/forged" /\ r.id = 1

\* The request at the head of the queue, of kind op, executes in this step.
Executes(op) ==
  dbQueue # <<>> /\ Head(dbQueue).op = op /\ dbQueue' = Tail(dbQueue)

\* C14: every save that succeeds gets an id above the id of the save that
\* succeeded before it and above every id in the store, whatever purges and
\* deletes happened in between; the ids in the store are pairwise distinct and
\* none is above the id assigned last.
C14_IdsIncrease ==
  /\ [][ Executes("add") =>
            \A r \in store' \ store :
              /\ r.id > lastId
              /\ \A o \in store : o.id < r.id
              /\ lastId' = r.id
              /\ store' = store \cup {r} ]_vars
  /\ [](\A r1, r2 \in store : r1.id = r2.id => r1 = r2)
  /\ [](\A r \in store : r.id <= lastId)

\* A record was saved as 1 and deleted, and the next save got 2.
C14_Witness ==
  /\ deleteReplies = <<[logId |-> <<"1">>, success |-> TRUE]>>
  /\ lastId = 2
  /\ \E r \in store : store = {r} /\ r.id = 2

\* C15: deleting a key from a store from which it was deleted changes nothing,
\* and every DELETE_LOG whose logId is a number removes the record with that
\* id and no other, leaves the store as it is when there is none, and is
\* answered with success.
C15_DeleteIdempotent ==
  /\ [](\A k \in 1..keyGen :
           StoreDelete(StoreDelete(store, k), k) = StoreDelete(store, k))
  /\ [][ (Executes("delete") /\ ~Head(dbQueue).id.nan) =>
            LET key == Head(dbQueue).id.n
            IN  /\ store' = {r \in store : r.id # key}
                /\ (\A r \in store : r.id # key) => store' = store
                /\ deleteReplies' =
                     Append(deleteReplies, [logId |-> Head(dbQueue).logId,
                                            success |-> TRUE]) ]_vars

\* Record 1 was saved, then DELETE_LOG('1') was handled twice: both replies
\* are success and the store is empty.
C15_Witness ==
  /\ keyGen = 2
  /\ store = {}
  /\ dbQueue = <<>>
  /\ deleteReplies = << [logId |-> <<"1">>, success |-> TRUE],
                        [logId |-> <<"1">>, success |-> TRUE] >>

\* The six fields of a capture.
CaptureFields ==
  {"url", "method", "responseBody", "contentType", "timestamp", "pageLoadId"}

\* C16: a forwarded capture that passes the filter is queued with its six
\* fields as forwarded, stored with those and the id of the store, and
\* returned by GET_LOGS of its session as stored: every record of a reply has
\* the six fields of a capture some page posted, tagged with the session asked
\* for, and an id, and no other field.
C16_RoundTrip ==
  /\ [][ \A t \in Tabs :
            (Consumes(t, "INTERCEPTED_REQUEST")
               /\ Head(chan[t]).contentType = JsStr(AppJson)) =>
              /\ Len(dbQueue') = Len(dbQueue) + 1
              /\ LET v == dbQueue'[Len(dbQueue')].value
                 IN  /\ DOMAIN v = CaptureFields
                     /\ \A k \in CaptureFields : v[k] = Head(chan[t])[k] ]_vars
  /\ [][ Executes("add") =>
            \A r \in store' \ store :
              /\ DOMAIN r = CaptureFields \cup {"id"}
              /\ \A k \in CaptureFields : r[k] = Head(dbQueue).value[k] ]_vars
  /\ [][ Executes("getAll") =>
            getLogsReply'.logs =
              {r \in store : r.pageLoadId = Head(dbQueue).pageLoadId} ]_vars
  /\ [](\A r \in getLogsReply.logs :
           /\ DOMAIN r = CaptureFields \cup {"id"}
           /\ r.pageLoadId = getLogsReply.pageLoadId
           /\ \E kind \in {"capture", "forged"}, ts \in 1..MaxClock :
                \A k \in CaptureFields \ {"pageLoadId"} :
                  r[k] = PageEvent(kind, ts)[k])

\* GET_LOGS('1') returned the capture that the page posted at time 2 in
\* session '1': url and timestamp are the posted ones, the id is the store's.
C16_Witness ==
  /\ getLogsReply.valid
  /\ getLogsReply.pageLoadId = <<"1">>
  /\ \E r \in getLogsReply.logs :
       /\ r.url = "/forged"
       /\ r.timestamp = 2
       /\ r.contentType = JsStr(AppJson)
       /\ r.id = 1

(***************************************************************************)
(* Claims about the questions of the popup.                                *)
(***************************************************************************)
\* The callback of storage.sync.get has run for Ask a, and the provider it
\* found selected is one of the two.
Checked(a) == a.phase # "storage" /\ a.provider \in {Gemini, OpenRouter}

\* C17: for each of the two providers, an Ask that finds no key is answered
\* with the error for a missing key, and an Ask that finds the one-letter key
\* 'x', which has the format of no provider's key, with the error for an
\* invalid key; in both cases the logs are not read and the provider is not
\* called.
C17_CredentialChecked ==
  \A i \in DOMAIN asks :
    LET a == asks[i]
    IN  Checked(a) =>
          /\ ~Truthy(a.key) =>
               (a.replies = <<ErrorReply("missing")>> /\ a.reads = 0 /\ a.calls = 0)
          /\ a.key = JsStr(ShortKey) =>
               (a.replies = <<ErrorReply("invalid")>> /\ a.reads = 0 /\ a.calls = 0)

\* C18: an Ask that finds no key (none stored, or the empty string) for the
\* selected provider is over with one reply, an error, and no call of the
\* provider was or will be made for it.
C18_NoCallWithoutCredential ==
  /\ [](\A i \in DOMAIN asks :
           (Checked(asks[i]) /\ ~Truthy(asks[i].key)) =>
             /\ asks[i].phase = "done"
             /\ Len(asks[i].replies) = 1
             /\ asks[i].replies[1].kind = "error"
             /\ asks[i].calls = 0)
  /\ [][ \A i \in DOMAIN asks :
            (Checked(asks[i]) /\ ~Truthy(asks[i].key)) => asks'[i] = asks[i] ]_vars

\* OpenRouter is selected and its key is the empty string, while a Gemini key
\* is stored: the Ask got the error and no call was made.
C18_Witness ==
  /\ sync.geminiApiKey = JsStr(LongKey)
  /\ \E i \in DOMAIN asks :
       /\ asks[i].provider = OpenRouter
       /\ asks[i].key = JsStr(<<>>)
       /\ asks[i].replies = <<ErrorReply("missing")>>
       /\ asks[i].calls = 0

\* C19: an Ask gets at most one reply, and once the handling of an Ask has
\* come to its end, with nothing pending for it, it has got one, an answer or
\* an error.
C19_AskReplied ==
  \A i \in DOMAIN asks :
    /\ Len(asks[i].replies) <= 1
    /\ asks[i].phase = "done" =>
         /\ Len(asks[i].replies) = 1
         /\ asks[i].replies[1].kind \in {"answer", "error"}

Responded(a) == a.phase = "done" /\ a.response.settled = "fulfilled"

\* C21: an Ask whose provider call got a response that is not ok is replied
\* {error}, and the error text contains the message of the error body when
\* the body is JSON with an error message, and the status text of the
\* response for every other body.
C21_ProviderErrorText ==
  \A i \in DOMAIN asks :
    LET a == asks[i]
        body == a.response.body
    IN  (Responded(a) /\ ~a.response.ok) =>
          /\ a.replies = <<ErrorReply("provider")>>
          /\ IF body.parse = "object" /\ Truthy(body.error.message)
               THEN Includes(a.text, body.error.message.chars)
               ELSE Includes(a.text, a.response.statusText)

C23_PromptAndAnswer ==
  /\ [][ \A i \in DOMAIN asks :
            (asks[i].phase = "reading" /\ asks'[i].phase = "calling") =>
              /\ \A r \in store :
                   r.pageLoadId = asks[i].pageLoadId =>
                     Includes(asks'[i].prompt, <<JsonString(<<r.responseBody>>)>>)
              /\ Includes(asks'[i].prompt, <<TextPart(asks[i].question)>>) ]_vars
  /\ [](\A i \in DOMAIN asks :
           LET a == asks[i]
               body == a.response.body
           IN  (Responded(a) /\ a.response.ok /\ body.parse = "object"
                  /\ body.text.tag = "string") =>
                 /\ a.replies = <<AnswerReply("answer")>>
                 /\ a.text = body.text.chars)

(***************************************************************************)
(* Claims about storage faults.                                            *)
(***************************************************************************)
\* An IndexedDB operation fails in this step.
Fails == Len(faults') = Len(faults) + 1

\* C24: when an IndexedDB operation fails, the store, the page, its content
\* script and the messages waiting for the listener stay as they are and the
\* failed request alone leaves the queue; the popup gets an error reply when
\* the operation was for GET_LOGS, DELETE_LOG or CLEAR_ALL_LOGS, and nothing
\* is replied or sent anywhere when it was the save of a capture or the purge
\* of NEW_PAGE_LOAD.  After a fault the listener handles each message as
\* ever, and the operations that do not fail take effect as ever: a capture
\* with a JSON content type is queued for saving, a save stores its record,
\* a read replies the records of the session.
C24_FaultsReported ==
  /\ [][ Fails =>
           LET f == faults'[Len(faults')]
               r == Head(dbQueue)
           IN  /\ dbQueue' = Tail(dbQueue)
               /\ UNCHANGED << store, keyGen, pageVars, netVars, chan >>
               /\ f.type = "GET_LOGS" =>
                    (~getLogsReply'.valid /\ getLogsReply'.pageLoadId = r.pageLoadId
                       /\ f.reply = "error")
               /\ f.type = "DELETE_LOG" =>
                    (deleteReplies' = Append(deleteReplies,
                                             [logId |-> r.logId, success |-> FALSE])
                       /\ f.reply = "error")
               /\ f.type = "CLEAR_ALL_LOGS" =>
                    (clearReplies' = Append(clearReplies, "error")
                       /\ f.reply = "error")
               /\ f.type \in {"INTERCEPTED_REQUEST", "NEW_PAGE_LOAD"} =>
                    (f.reply = "none"
                       /\ UNCHANGED << getLogsReply, deleteReplies, clearReplies >>) ]_vars
  /\ [][ (faults # <<>> /\ ~Fails) =>
           /\ \A t \in Tabs :
                /\ (Consumes(t, "INTERCEPTED_REQUEST") /\ IsJsonResponse(Head(chan[t]))) =>
                     dbQueue' = SaveRequest(dbQueue, RequestData(Head(chan[t])))
                /\ Consumes(t, "NEW_PAGE_LOAD") =>
                     ClearsIn(dbQueue') = ClearsIn(dbQueue) + 1
           /\ (Executes("add") /\ \A o \in store : o.id # keyGen) =>
                store' = StoreAdd(store, keyGen, Head(dbQueue).value)
           /\ Executes("clear") => store' = {}
           /\ Executes("getAll") =>
                (getLogsReply'.valid
                   /\ getLogsReply'.logs = IndexGetAll(store, Head(dbQueue).pageLoadId)) ]_vars

\* The purge of NEW_PAGE_LOAD failed and a read for GET_LOGS failed; then the
\* capture the page posted was saved and GET_LOGS, sent again, was replied
\* with its record.
C24_Witness ==
  /\ faults = << [type |-> "NEW_PAGE_LOAD", reply |-> "none"],
                 [type |-> "GET_LOGS", reply |-> "error"] >>
  /\ getLogsReply.valid
  /\ Cardinality(getLogsReply.logs) = 1

(***************************************************************************)
(* Claims about the activation state.                                      *)
(***************************************************************************)
\* The callback of storage.local.get of the content script of tab t runs in
\* this step: the session of the page starts with or without an interceptor.
Starts(t) == prefPending[t] /\ ~prefPending'[t]

\* C25: the page of a tab that started loading after the user switched the
\* toggle of its hostname off starts without an active interceptor, and the
\* page of a tab that started loading after the user switched it on starts
\* with one.
C25_StartsAsToggled ==
  [][ \A t \in Tabs :
        Starts(t) =>
          /\ startPref[t] = "off" => ~(injected'[t] /\ isActive'[t])
          /\ startPref[t] = "on" => (injected'[t] /\ isActive'[t]) ]_vars

\* The window message event with the activation state b is dispatched in the
\* page of tab t in this step.
RelaysState(t, b) ==
  /\ winQ[t] # <<>>
  /\ Head(winQ[t]) = [type |-> "GEMINI_INTERCEPTOR_STATE", isActive |-> b]
  /\ winQ'[t] = Tail(winQ[t])
  /\ nInputs' = nInputs

\* C26: when the state b that content.js posted for SET_ACTIVATION_STATE is
\* dispatched in the page, the page has an interceptor and its isActive is b
\* from then on, until another state is dispatched or the page is left.
C26_StateRelayed ==
  /\ [][ \A t \in Tabs, b \in BOOLEAN :
            RelaysState(t, b) => (injected'[t] /\ isActive'[t] = b) ]_vars
  /\ [][ \A t \in Tabs :
            (injected[t] /\ isActive'[t] # isActive[t]) =>
              \/ RelaysState(t, isActive'[t])
              \/ prefPending'[t] ]_vars

(***************************************************************************)
(* Claims about sessions and the life of a record.                         *)
(***************************************************************************)
\* A page starts loading in tab t in this step: its content script sends
\* NEW_PAGE_LOAD with the pageLoadId it took.
LoadsPage(t) ==
  /\ nInputs' = nInputs + 1
  /\ chan'[t] = Append(chan[t], [type |-> "NEW_PAGE_LOAD",
                                  pageLoadId |-> pageLoadId'[t]])

\* C27: the pages loaded in two tabs at the same time have different
\* pageLoadIds, and the pageLoadId a page load takes differs from the one
\* the page load before it took, in whichever tab that was; as the clock does
\* not go back, it then differs from every pageLoadId taken before.
C27_UniqueSessionIds ==
  /\ [](\A t1, t2 \in Tabs :
           (t1 # t2 /\ loaded[t1] /\ loaded[t2]) => pageLoadId[t1] # pageLoadId[t2])
  /\ [][ \A t \in Tabs :
            (LoadsPage(t) /\ session # 0) =>
              pageLoadId'[t] # NumToString(session) ]_vars

\* C28: the purge that the NEW_PAGE_LOAD of session s started removes no
\* record with pageLoadId s: when its clear request executes, the store has
\* no such record.
C28_PurgeBeforeRecords ==
  [][ (Executes("clear") /\ Caller(Head(dbQueue)) = "NEW_PAGE_LOAD") =>
        \A r \in store \ store' :
          r.pageLoadId # Head(dbQueue).by.pageLoadId ]_vars

\* C29: whether a response is captured is decided by isActive as it was when
\* the response arrived: a fetch call whose response arrived and whose body
\* was decoded has posted its capture if and only if isActive was true when
\* the response arrived, whatever isActive was when text() resolved; and a
\* load event dispatched while isActive was false has posted nothing.
C29_NotRetroactive ==
  /\ \A i \in DOMAIN fetches :
       LET f == fetches[i]
       IN  (f.phase = "done" /\ f.outcome = "resolved" /\ f.decodable) =>
             (f.emitted >= 1 <=> f.armedAtArrival)
  /\ \A k \in DOMAIN loads :
       ~loads[k].armed => Times(loads[k].effects, "post") = 0

\* The page load with pageLoadId id is the one some tab shows now.
Current(id) == \E t \in Tabs : loaded[t] /\ pageLoadId[t] = id

\* C30: a record leaves the store only when a delete request for its id
\* executes, or when the purge of a NEW_PAGE_LOAD executes after the page
\* load the record belongs to was left: not while a tab still shows that
\* page, and not by any other operation.  A record enters the store only by
\* an add request and under an id no record has, so no record is changed;
\* and every GET_LOGS that is replied gets the records the store has for the
\* session asked for.
C30_RecordLifecycle ==
  /\ [][ \A r \in store \ store' :
            \/ /\ Executes("delete")
               /\ ~Head(dbQueue).id.nan
               /\ Head(dbQueue).id.n = r.id
            \/ /\ Executes("clear")
               /\ Caller(Head(dbQueue)) = "NEW_PAGE_LOAD"
               /\ ~Current(r.pageLoadId) ]_vars
  /\ [][ \A r \in store' \ store :
            Executes("add") /\ \A o \in store : o.id # r.id ]_vars
  /\ [][ (Executes("getAll") /\ getLogsReply'.valid) =>
            getLogsReply'.logs = IndexGetAll(store, Head(dbQueue).pageLoadId) ]_vars

(***************************************************************************)
(* Claims about the popup's requests.                                      *)
(***************************************************************************)
\* C31: the delete request of a DELETE_LOG carries parseInt of the logId; when
\* it executes, the record whose id is that number leaves the store, if there
\* is one, and every other record, of whatever session, stays as it is; when
\* the logId does not parse to a number, no record leaves.  Handling the
\* message itself changes no record.
C31_DeleteExactlyThat ==
  /\ [][ Executes("delete") =>
            LET d == Head(dbQueue)
            IN  /\ d.id = ParseInt(d.logId)
                /\ store' \subseteq store
                /\ \A r \in store :
                     r \notin store' <=> (~d.id.nan /\ r.id = d.id.n)
                /\ Cardinality(store \ store') <= 1
                /\ d.id.nan => store' = store ]_vars
  /\ [][ (Len(dbQueue') = Len(dbQueue) + 1
            /\ dbQueue'[Len(dbQueue')].op = "delete") => store' = store ]_vars

\* The pages of tabs A and B had one capture each stored, under the ids 1 and
\* 2; DELETE_LOG('1') removed the record of session '1' and the record of
\* session '2' is in the store as it was.
C31_Witness ==
  /\ pageLoadId["A"] = <<"1">>
  /\ pageLoadId["B"] = <<"2">>
  /\ Len(fetches) = 2
  /\ \A i \in DOMAIN fetches : fetches[i].emitted = 1
  /\ \A t \in Tabs : winQ[t] = <<>> /\ chan[t] = <<>>
  /\ dbQueue = <<>>
  /\ deleteReplies = <<[logId |-> <<"1">>, success |-> TRUE]>>
  /\ \E r \in store :
       store = {r} /\ r.id = 2 /\ r.pageLoadId = <<"2">> /\ r.url = "/fetch"

\* A step of a query: the popup gets the pageLoadId of the tab or sends
\* GET_LOGS, the read of GET_LOGS executes, or an Ask moves on (the message is
\* handled, the settings arrive, the logs are read or the read fails, the
\* provider call ends).
QueryStep ==
  \/ currentPageLoadId' # currentPageLoadId
  \/ popupTab' # popupTab
  \/ (handled'.type = "GET_LOGS" /\ nInputs' = nInputs + 1)
  \/ Executes("getAll")
  \/ asks' # asks

\* C32: no step of GET_LOGS, GET_PAGE_LOAD_ID or ASK_GEMINI, however it ends,
\* changes a stored record, the key generator, isActive of a page or the
\* pageLoadId of a content script; none posts a message to a page or sends one
\* to the background listener, and the only database requests such a step
\* issues are reads.
C32_QueriesReadOnly ==
  [][ QueryStep =>
        /\ UNCHANGED << store, keyGen, isActive, injected, pageLoadId, loaded,
                        winQ, chan >>
        /\ \A k \in DOMAIN dbQueue' :
             k > Len(dbQueue) => dbQueue'[k].op \in {"getAll", "askGetAll"}
        /\ \A k \in DOMAIN dbQueue' :
             dbQueue'[k].op \notin {"getAll", "askGetAll"} =>
               \E j \in DOMAIN dbQueue : dbQueue[j] = dbQueue'[k] ]_vars

\* The page's capture is stored and the page was switched off; the popup got
\* the pageLoadId of the tab, GET_LOGS returned the record and an Ask was
\* replied: the record is in the store and isActive is false as before.
C32_Witness ==
  /\ currentPageLoadId = pageLoadId["A"]
  /\ currentPageLoadId # <<>>
  /\ ~isActive["A"]
  /\ getLogsReply.valid
  /\ Cardinality(getLogsReply.logs) = 1
  /\ store = getLogsReply.logs
  /\ Len(asks) = 1
  /\ asks[1].phase = "done"
  /\ asks[1].replies = <<AnswerReply("answer")>>
  /\ asks[1].logs = store

\* How often part occurs in the prompt.
Occurs(prompt, part) == Cardinality({k \in DOMAIN prompt : prompt[k] = part})

\* What is sent of record r: its url, method and responseBody as JSON
\* strings and its timestamp in ISO form, under these four names.
SentOf(r) ==
  << TextPart(<<"url">>), JsonString(<<r.url>>),
     TextPart(<<"method">>), JsonString(<<r.method>>),
     TextPart(<<"responseBody">>), JsonString(<<r.responseBody>>),
     TextPart(<<"timestamp">>), JsonString(ToISOString(r.timestamp)) >>

\* C33: when the logs are read for the Ask for session s, the prompt holds,
\* for every record the store then has with pageLoadId s, its url, method,
\* responseBody and timestamp; it holds as many logs as there are such
\* records, so none of another session; and it holds no property named id,
\* contentType or pageLoadId, and nowhere the pageLoadId as a value.
C33_AskLogsProjected ==
  [][ \A i \in DOMAIN asks :
        (asks[i].phase = "reading" /\ asks'[i].phase = "calling") =>
          LET s == asks[i].pageLoadId
              prompt == asks'[i].prompt
          IN  /\ asks'[i].logs = {r \in store : r.pageLoadId = s}
              /\ \A r \in store : r.pageLoadId = s => Includes(prompt, SentOf(r))
              /\ Occurs(prompt, TextPart(<<"url">>))
                   = Cardinality({r \in store : r.pageLoadId = s})
              /\ Len(prompt) = 4 + 8 * Cardinality({r \in store : r.pageLoadId = s})
              /\ \A k \in {"id", "contentType", "pageLoadId"} :
                   Occurs(prompt, TextPart(<<k>>)) = 0
              /\ Occurs(prompt, JsonString(s)) = 0 ]_vars

\* The store has a record of session '1' and one of session '2', and the
\* prompt of the Ask for session '1' was built from it: it holds one log.
C33_Witness ==
  /\ \E r1, r2 \in store : r1.pageLoadId = <<"1">> /\ r2.pageLoadId = <<"2">>
  /\ Cardinality(store) = 2
  /\ Len(asks) = 1
  /\ asks[1].pageLoadId = <<"1">>
  /\ asks[1].phase = "calling"
  /\ Cardinality(asks[1].logs) = 1
  /\ Occurs(asks[1].prompt, TextPart(<<"url">>)) = 1

(***************************************************************************)
(* Claims about requests in flight at once.                                *)
(***************************************************************************)
\* The capture m has the url, the method, the Content-Type and the body of
\* one request.
OfOneRequest(m) ==
  \E q \in FetchRequests \cup XhrRequests :
    /\ m.url = q.url
    /\ m.method = q.method
    /\ m.responseBody = ServerResponse(q.url).body
    /\ m.contentType = ServerResponse(q.url).contentType

\* C34: with fetch calls and the request of an XMLHttpRequest object under
\* way at once, every capture posted has the url, the method, the body and
\* the Content-Type of one and the same request; and a step of one fetch call
\* changes no other call and not the object.
C34_CapturesConsistent ==
  /\ [](\A t \in Tabs : \A k \in DOMAIN winQ[t] :
           winQ[t][k].type = "INTERCEPTED_REQUEST" => OfOneRequest(winQ[t][k]))
  /\ [][ \A i \in DOMAIN fetches :
            (i \in DOMAIN fetches' /\ fetches'[i] # fetches[i]) =>
              /\ \A j \in DOMAIN fetches : j # i => fetches'[j] = fetches[j]
              /\ xhr' = xhr ]_vars

(***************************************************************************)
(* Claims about the session of the popup.                                  *)
(***************************************************************************)
\* The messages in chan[t] that the content script running in tab t sent:
\* those behind every NEW_PAGE_LOAD.
SentByCurrent(t) ==
  {k \in DOMAIN chan[t] :
     \A j \in DOMAIN chan[t] : chan[t][j].type = "NEW_PAGE_LOAD" => j <= k}

\* C35: the pageLoadId the popup gets from a tab is the pageLoadId of the
\* content script running there; that value changes only when a page load
\* starts in the tab, with a new content script, which announces it in
\* NEW_PAGE_LOAD; every message the running content script sent carries it,
\* the save requested for a capture and the record stored keep it, and
\* GET_LOGS returns the records that carry the pageLoadId asked for.
C35_SessionIdStable ==
  /\ [][ (currentPageLoadId' # currentPageLoadId \/ popupTab' # popupTab) =>
            (popupTab' \in Tabs /\ currentPageLoadId' = pageLoadId[popupTab']) ]_vars
  /\ [][ \A t \in Tabs :
            pageLoadId'[t] # pageLoadId[t] =>
              /\ nInputs' = nInputs + 1
              /\ prefPending'[t]
              /\ chan'[t] = Append(chan[t], [type |-> "NEW_PAGE_LOAD",
                                              pageLoadId |-> pageLoadId'[t]]) ]_vars
  /\ [](\A t \in Tabs : \A k \in SentByCurrent(t) :
           chan[t][k].pageLoadId = pageLoadId[t])
  /\ [][ \A t \in Tabs :
            (Consumes(t, "INTERCEPTED_REQUEST") /\ Len(dbQueue') > Len(dbQueue)) =>
              dbQueue'[Len(dbQueue')].value.pageLoadId = Head(chan[t]).pageLoadId ]_vars
  /\ [][ Executes("add") =>
            \A r \in store' \ store : r.pageLoadId = Head(dbQueue).value.pageLoadId ]_vars
  /\ [][ Executes("getAll") =>
            getLogsReply'.logs =
              {r \in store : r.pageLoadId = Head(dbQueue).pageLoadId} ]_vars

\* The popup was opened on tab A, in its second page load, after the page
\* had a capture stored: it got '2', the pageLoadId of the content script,
\* and GET_LOGS('2') returned the record.
C35_Witness ==
  /\ popupTab = "A"
  /\ pageLoadId["A"] = <<"2">>
  /\ currentPageLoadId = <<"2">>
  /\ getLogsReply.valid
  /\ getLogsReply.pageLoadId = <<"2">>
  /\ \E r \in store :
       getLogsReply.logs = {r} /\ r.pageLoadId = <<"2">> /\ r.url = "/api"

(***************************************************************************)
(* Claims about the sites switched off in storage.                         *)
(***************************************************************************)
Listed(t) == deactivatedSites # Absent /\ Hostname(t) \in deactivatedSites[1]

EmitsNothing(t) ==
  /\ ~injected[t]
  /\ \A k \in DOMAIN winQ[t] : winQ[t][k].type # "INTERCEPTED_REQUEST"
  /\ \A k \in DOMAIN chan[t] : chan[t][k].type # "INTERCEPTED_REQUEST"
  /\ \A i \in DOMAIN fetches : fetches[i].tab # t

Settled(t) ==
  /\ loaded[t]
  /\ ~prefPending[t]
  /\ \A k \in DOMAIN winQ[t] : winQ[t][k].type # "GEMINI_INTERCEPTOR_STATE"

\* Captures are emitted in the page of tab t.
Emitting(t) == injected[t] /\ isActive[t]

\* C37: whenever the popup shows a label for the site of its tab and the page
\* is settled, the label is 'Enabled' exactly when captures are emitted in
\* the page.
C37_LabelAgrees ==
  \A t \in Tabs :
    (popupTab = t /\ siteToggleLabel # "none" /\ Settled(t)) =>
      (siteToggleLabel = "Enabled" <=> Emitting(t))

(***************************************************************************)
(* Claims about the list of the popup.                                     *)
(***************************************************************************)
\* The orders in which a store can return the records of a set.
Orders(logs) ==
  {q \in [1..Cardinality(logs) -> logs] :
     \A i, j \in DOMAIN q : q[i] = q[j] => i = j}

NewestFirst(list) ==
  \A i, j \in DOMAIN list : i < j => list[i].timestamp >= list[j].timestamp

\* The list holds logs of the set, each once, and all of them when the search
\* box is empty; the counter says how many it holds, of how many in the set.
ShownOf(shown, logs, value) ==
  /\ \A i \in DOMAIN shown.list : shown.list[i] \in logs
  /\ \A i, j \in DOMAIN shown.list : shown.list[i] = shown.list[j] => i = j
  /\ value = <<>> => Len(shown.list) = Cardinality(logs)
  /\ shown.count.shown = Len(shown.list)
  /\ shown.count.of = Cardinality(logs)
  /\ logs # {} => shown.count.kind = "of"

\* C38: when GET_LOGS is answered, the popup lists the records returned
\* newest first, in whatever order the store returned them, and its counter
\* 'X of Y' has Y the number of records returned and X the number listed
\* under the search filter.
C38_NewestFirst ==
  [][ Executes("getAll") =>
        /\ \A q \in Orders(getLogsReply'.logs) :
              /\ NewestFirst(DisplayLogs(q, searchInput).list)
              /\ ShownOf(DisplayLogs(q, searchInput), getLogsReply'.logs, searchInput)
        /\ \E q \in Orders(getLogsReply'.logs) :
              /\ logsList' = DisplayLogs(q, searchInput).list
              /\ logsCount' = DisplayLogs(q, searchInput).count ]_vars

\* Two records of the session, saved at times 1 and 2, are listed with the
\* later one first under an empty search box ('2 of 2').
C38_Witness ==
  /\ getLogsReply.valid
  /\ Cardinality(getLogsReply.logs) = 2
  /\ Len(logsList) = 2
  /\ logsList[1].timestamp = 2 /\ logsList[2].timestamp = 1
  /\ logsList[1].id > logsList[2].id
  /\ searchInput = <<>>
  /\ logsCount = OfCount(2, 2)

====
